---- MODULE Spec2Model ----
(***************************************************************************)
(* A model of the personal-finance application: the record store the views *)
(* read and write, the Dashboard's load and in-memory aggregation, and the *)
(* derived values the Loans and Goals views compute when they render.      *)
(*                                                                         *)
(* Amounts are integers (whole currency units).  A JavaScript number that  *)
(* comes out of a division is a JsNum: an exact fraction, NaN or +/-       *)
(* Infinity.  Binary floating-point rounding is outside the model.         *)
(***************************************************************************)
EXTENDS Integers, Sequences, FiniteSets, Bags, TLC

VARIABLES
    now,            \* new Date() in local time: [year, month], month 0..11
    tzOffset,       \* the browser's offset from UTC in hours (local = UTC + tzOffset)
    user,           \* AuthContext user; NoUser stands for null
    authLoading,    \* AuthContext loading
    signOutPressed, \* Sign Out has been pressed since the page was loaded (a
                    \* record of the run)
    dbTransactions, \* the store's transactions rows, a bag
    dbAccounts,     \* the store's accounts rows, a bag
    dbLoans,        \* the store's loans rows, a bag
    dbCreditScores, \* the store's credit_scores rows, a bag
    dbGoals,        \* the store's goals rows, a bag
    dbMessages,     \* the store's chat_conversations rows, a bag
    nextId,         \* the store's sequence: the id and created_at of the next row
    createdBy,      \* for the id of every row inserted: who was logged in (a record
                    \* of the run, not a column)
    dashLoad,       \* position of Dashboard / loadDashboardData
    dashData,       \* Dashboard state `data`
    dashLoading,    \* Dashboard state `loading`
    calc,           \* the last derived value a view computed while rendering
    goalsMounted,   \* AppContent renders <Goals />
    goals,          \* Goals state `goals`
    goalsLoading,   \* Goals state `loading`
    goalsShowModal, \* Goals state `showModal`
    goalsFormData,  \* Goals state `formData`
    updateModal,    \* Goals state `updateModal`; NoUpdateModal stands for null
    goalsInFlight,  \* the loadGoals calls that have not returned, a bag
    goalsLast,      \* how the loadGoals call that returned last ended
    goalsOrphaned,  \* the loadGoals calls of an unmounted Goals that have not returned
    goalsDiscarded, \* the call that last returned into an unmounted Goals
    transactionsMounted,   \* AppContent renders <Transactions />
    transactions,          \* Transactions state `transactions`
    transactionsAccounts,  \* Transactions state `accounts`
    transactionsLoading,   \* Transactions state `loading`
    transactionsShowModal, \* Transactions state `showModal`
    transactionsFormData,  \* Transactions state `formData`
    transactionsInFlight,  \* the loadData calls that have not returned, a bag
    transactionsLast,      \* how the loadData call that returned last ended
    chatMounted,    \* AppContent renders <Chat />
    messages,       \* Chat state `messages`
    input,          \* Chat state `input`, a text
    chatLoading,    \* Chat state `loading`
    chatInFlight,   \* the loadMessages calls of the mount effect that have not returned
    chatSend,       \* the handleSend call under way: its position and its locals
    listView        \* the state of Accounts, Loans or CreditScore, whichever
                    \* AppContent renders

envVars == <<now, tzOffset, user, authLoading, signOutPressed>>

dbVars == <<dbTransactions, dbAccounts, dbLoans, dbCreditScores, dbGoals, dbMessages, nextId, createdBy>>

dashVars == <<dashLoad, dashData, dashLoading>>

goalsVars ==
    <<goalsMounted, goals, goalsLoading, goalsShowModal, goalsFormData, updateModal,
      goalsInFlight, goalsLast, goalsOrphaned, goalsDiscarded>>

transactionsVars ==
    <<transactionsMounted, transactions, transactionsAccounts, transactionsLoading,
      transactionsShowModal, transactionsFormData, transactionsInFlight,
      transactionsLast>>

chatVars == <<chatMounted, messages, input, chatLoading, chatInFlight, chatSend>>

\* the views other than Goals and Transactions
restVars == <<chatVars, listView>>

viewVars == <<goalsVars, transactionsVars, restVars>>

vars == <<envVars, dbVars, dashVars, calc, viewVars>>

----------------------------------------------------------------------------
(* Bounds of the model *)

\* rows of the transactions table in the aggregation specification
MaxTx == 6

\* rows of the transactions table in the specification of the recent-
\* transactions query: one more than the query's limit
MaxStored == 11

\* amounts entered in a form run from -2000 to MaxUnits * 1000
MaxUnits == 12

\* rows the views insert in one run of the views specification
MaxRows == 2

\* load calls of one view that have not returned
MaxInFlight == 1

\* load calls of the Goals view that have not returned: a reload can be
\* called while another is on its way
MaxGoalsInFlight == 2

\* calls of unmounted components that have not returned when a view is
\* mounted again
MaxOrphaned == 1

\* rows the Chat inserts in one run of its specification: two sends
MaxMessages == 4

----------------------------------------------------------------------------
(* Generic helpers *)

Range(s) == {s[i] : i \in 1..Len(s)}

Take(s, n) == SubSeq(s, 1, IF Len(s) < n THEN Len(s) ELSE n)

Reverse(s) == [i \in 1..Len(s) |-> s[Len(s) + 1 - i]]

Repeat(x, n) == [i \in 1..n |-> x]

Abs(x) == IF x < 0 THEN -x ELSE x

RECURSIVE GCD(_, _)
GCD(a, b) == IF b = 0 THEN a ELSE GCD(b, a % b)

----------------------------------------------------------------------------
(* JavaScript numbers produced by division *)

NaN == [k |-> "nan", n |-> 0, d |-> 0]

Infinity == [k |-> "inf", n |-> 1, d |-> 0]

NegInfinity == [k |-> "inf", n |-> -1, d |-> 0]

\* the fraction n/d, d # 0, in lowest terms with a positive denominator
Frac(n, d) ==
    LET g == GCD(Abs(n), Abs(d))
        s == IF d < 0 THEN -1 ELSE 1
    IN  [k |-> "num", n |-> (s * n) \div g, d |-> (s * d) \div g]

Num(i) == Frac(i, 1)

IsFinite(x) == x.k = "num"

\* a / b on two integer-valued numbers
JsDiv(a, b) ==
    IF b # 0 THEN Frac(a, b)
    ELSE IF a = 0 THEN NaN
    ELSE IF a > 0 THEN Infinity
    ELSE NegInfinity

\* x * i for an integer i > 0
JsTimes(x, i) == IF x.k = "num" THEN Frac(x.n * i, x.d) ELSE x

\* x <= y on values that are not NaN
JsLeq(x, y) ==
    IF x.k = "inf" THEN x.n < 0 \/ (y.k = "inf" /\ y.n > 0)
    ELSE IF y.k = "inf" THEN y.n > 0
    ELSE x.n * y.d <= y.n * x.d

\* Math.min(x, y): NaN when either argument is NaN
MathMin(x, y) ==
    IF x.k = "nan" \/ y.k = "nan" THEN NaN
    ELSE IF JsLeq(x, y) THEN x ELSE y

\* Math.max(a, b) on integers
IntMax(a, b) == IF a >= b THEN a ELSE b

----------------------------------------------------------------------------
(* Dates.  A stored date is the string 'YYYY-MM-DD', here [y, m, d] with  *)
(* m in 1..12.  new Date('YYYY-MM-DD') is midnight UTC of that day;       *)
(* getMonth() and getFullYear() read it in local time.                    *)

Date(y, m, d) == [y |-> y, m |-> m, d |-> d]

\* the local calendar day of midnight UTC of date s (|tzOffset| < 24);
\* the day number of a last day of month is not needed and is left 0
LocalDay(s) ==
    IF tzOffset >= 0 THEN s
    ELSE IF s.d > 1 THEN Date(s.y, s.m, s.d - 1)
    ELSE IF s.m > 1 THEN Date(s.y, s.m - 1, 0)
    ELSE Date(s.y - 1, 12, 0)

\* new Date(s).getMonth(), 0..11
GetMonth(s) == LocalDay(s).m - 1

\* new Date(s).getFullYear()
GetFullYear(s) == LocalDay(s).y

\* new Date(year, monthIndex, 1): monthIndex outside 0..11 carries into the year
LocalMonthStart(year, monthIndex) ==
    [year |-> year + (monthIndex \div 12), monthNum |-> monthIndex % 12]

MonthShort ==
    <<"Jan", "Feb", "Mar", "Apr", "May", "Jun",
      "Jul", "Aug", "Sep", "Oct", "Nov", "Dec">>

\* d.toLocaleDateString('en-US', { month: 'short' })
ToMonthShort(monthNum) == MonthShort[monthNum + 1]

\* s1 is strictly later than s2
DateAfter(s1, s2) ==
    \/ s1.y > s2.y
    \/ s1.y = s2.y /\ s1.m > s2.m
    \/ s1.y = s2.y /\ s1.m = s2.m /\ s1.d > s2.d

----------------------------------------------------------------------------
(* Authentication (AuthContext) *)

NoUser == [id |-> "", name |-> ""]

\* login(name): setUser({ id: "1", name })
LoggedIn(name) == [id |-> "1", name |-> name]

----------------------------------------------------------------------------
(* The record store.  A table is a bag of rows: rows carry no position,   *)
(* and a select returns those that pass its filter in the order asked     *)
(* for.  A response is { data, error }: ok = FALSE stands for data: null  *)
(* with an error set.                                                     *)

Response(rows) == [ok |-> TRUE, rows |-> rows]

ErrorResponse == [ok |-> FALSE, rows |-> <<>>]

\* `res.data || []`, and what `res.data?.f(...) || []` starts from
DataOrEmpty(res) == IF res.ok THEN res.rows ELSE <<>>

\* the rows of a table one after the other, in an order the store fixes
RECURSIVE HeapOrder(_)
HeapOrder(bag) ==
    IF DOMAIN bag = {} THEN <<>>
    ELSE LET r == CHOOSE x \in DOMAIN bag : TRUE
         IN  Repeat(r, bag[r]) \o HeapOrder([x \in DOMAIN bag \ {r} |-> bag[x]])

\* .eq('user_id', uid); rev picks one of the two orders the store may
\* return rows in before any ordering is applied
SelectEq(bag, uid, rev) ==
    LET rows == SelectSeq(HeapOrder(bag), LAMBDA r : r.user_id = uid)
    IN  IF rev THEN Reverse(rows) ELSE rows

RECURSIVE InsertByDateDesc(_, _)
InsertByDateDesc(sorted, r) ==
    IF sorted = <<>> THEN <<r>>
    ELSE IF DateAfter(r.transaction_date, Head(sorted).transaction_date)
         THEN <<r>> \o sorted
         ELSE <<Head(sorted)>> \o InsertByDateDesc(Tail(sorted), r)

\* .order('transaction_date', { ascending: false }): rows of equal date stay
\* in the order they came in
RECURSIVE OrderByDateDesc(_, _)
OrderByDateDesc(sorted, rows) ==
    IF rows = <<>> THEN sorted
    ELSE OrderByDateDesc(InsertByDateDesc(sorted, Head(rows)), Tail(rows))

\* the transactions query of loadDashboardData
RecentLimit == 10

SelectRecentTransactions(bag, uid, rev) ==
    Take(OrderByDateDesc(<<>>, SelectEq(bag, uid, rev)), RecentLimit)

\* what a query of the Dashboard may be answered with, as the data the
\* page goes on with: the rows in either order, or none when the response
\* carries an error
Answers(bag, uid) ==
    {DataOrEmpty(res) :
        res \in {Response(SelectEq(bag, uid, rev)) : rev \in BOOLEAN} \cup {ErrorResponse}}

RecentAnswers(bag, uid) ==
    {DataOrEmpty(res) :
        res \in {Response(SelectRecentTransactions(bag, uid, rev)) : rev \in BOOLEAN}
                \cup {ErrorResponse}}

\* no account: the '' of the form's select and the null of the column
\* (`formData.account_id || null`); the store's ids start at 1
NoId == 0

\* supabase.from('transactions').insert({ user_id, ...form })
TransactionRow(uid, form) ==
    [user_id |-> uid,
     transaction_type |-> form.transaction_type,
     category |-> form.category,
     amount |-> form.amount,
     transaction_date |-> form.transaction_date]

\* the transactions row as the Transactions view holds it, with its id
StoredTransaction(id, uid, form) ==
    [id |-> id,
     user_id |-> uid,
     transaction_type |-> form.transaction_type,
     category |-> form.category,
     amount |-> form.amount,
     transaction_date |-> form.transaction_date,
     account_id |-> form.account_id]

\* supabase.from('goals').insert({ user_id, ...form }); the store sets id
\* and created_at
GoalRow(id, uid, form) ==
    [id |-> id,
     user_id |-> uid,
     goal_name |-> form.goal_name,
     target_amount |-> form.target_amount,
     current_amount |-> form.current_amount,
     created_at |-> id]

RECURSIVE InsertByCreatedDesc(_, _)
InsertByCreatedDesc(sorted, r) ==
    IF sorted = <<>> THEN <<r>>
    ELSE IF r.created_at > Head(sorted).created_at
         THEN <<r>> \o sorted
         ELSE <<Head(sorted)>> \o InsertByCreatedDesc(Tail(sorted), r)

\* .order('created_at', { ascending: false })
RECURSIVE OrderByCreatedDesc(_, _)
OrderByCreatedDesc(sorted, rows) ==
    IF rows = <<>> THEN sorted
    ELSE OrderByCreatedDesc(InsertByCreatedDesc(sorted, Head(rows)), Tail(rows))

\* the query of loadGoals
SelectGoals(bag, uid) == OrderByCreatedDesc(<<>>, SelectEq(bag, uid, FALSE))

\* the transactions query of Transactions.loadData: no limit
SelectTransactions(bag, uid, rev) == OrderByDateDesc(<<>>, SelectEq(bag, uid, rev))

\* an update without a filter
UpdateEveryCurrentAmount(bag, id, amount) ==
    SetToBag({[r EXCEPT !.current_amount = amount] : r \in BagToSet(bag)})

\* .update({ current_amount }).eq('id', id)
UpdateCurrentAmount(bag, id, amount) ==
    SetToBag({IF r.id = id THEN [r EXCEPT !.current_amount = amount] ELSE r :
              r \in BagToSet(bag)})

\* a delete without a filter
DeleteAny(bag, id) == EmptyBag

\* .delete().eq('id', id)
DeleteEq(bag, id) == SetToBag({r \in BagToSet(bag) : r.id # id})

\* supabase.from('chat_conversations').insert({ user_id, message, sender });
\* the store sets id and created_at
MessageRow(id, uid, message, sender) ==
    [id |-> id, user_id |-> uid, message |-> message, sender |-> sender,
     created_at |-> id]

\* the query of loadMessages: .order('created_at', { ascending: true })
SelectMessages(bag, uid) == Reverse(OrderByCreatedDesc(<<>>, SelectEq(bag, uid, FALSE)))

\* a load call that has not returned: its query is on its way to the store
\* (Sent), or the store has answered and the continuation has not run yet:
\* with a response (Fulfilled) or with a rejected promise (Rejected)
Sent == [state |-> "sent"]

\* no call
NoCall == [state |-> "none"]

Fulfilled(res) == [state |-> "fulfilled", res |-> res]

Rejected == [state |-> "rejected"]

\* one call replaced by what it became
Replace(inFlight, old, new) == (inFlight (-) SetToBag({old})) (+) SetToBag({new})

----------------------------------------------------------------------------
(* Dashboard: the aggregation of loadDashboardData *)

RECURSIVE SumFieldSeeded(_, _)
\* a reduce that starts from 1
SumFieldSeeded(rows, field) ==
    IF rows = <<>> THEN 1 ELSE Head(rows)[field] + SumFieldSeeded(Tail(rows), field)

RECURSIVE SumField(_, _)
\* rows.reduce((sum, r) => sum + Number(r[field]), 0)
SumField(rows, field) ==
    IF rows = <<>> THEN 0 ELSE Head(rows)[field] + SumField(Tail(rows), field)

OfType(rows, type) == SelectSeq(rows, LAMBDA t : t.transaction_type = type)

\* rows whose parsed date has the given getMonth() and getFullYear()
InMonth(rows, monthNum, year) ==
    SelectSeq(rows, LAMBDA t : /\ GetMonth(t.transaction_date) = monthNum
                               /\ GetFullYear(t.transaction_date) = year)

CurrentMonthTransactions(rows) == InMonth(rows, now.month, now.year)

\* acc.find((c) => c.category === category): its index, 0 when there is none
FindCategory(acc, category) ==
    IF \E i \in 1..Len(acc) : acc[i].category = category
    THEN CHOOSE i \in 1..Len(acc) :
            /\ acc[i].category = category
            /\ \A j \in 1..(i - 1) : acc[j].category # category
    ELSE 0

RECURSIVE GroupByCategory(_, _)
GroupByCategory(acc, rows) ==
    IF rows = <<>> THEN acc
    ELSE LET t == Head(rows)
             i == FindCategory(acc, t.category)
         IN  GroupByCategory(
                 IF i > 0
                 THEN [acc EXCEPT ![i].total = @ + t.amount]
                 ELSE Append(acc, [category |-> t.category, total |-> t.amount]),
                 Tail(rows))

RECURSIVE InsertByTotalDescTiesFirst(_, _)
\* an insertion that puts a category before those of the same total
InsertByTotalDescTiesFirst(sorted, c) ==
    IF sorted = <<>> THEN <<c>>
    ELSE IF c.total >= Head(sorted).total
         THEN <<c>> \o sorted
         ELSE <<Head(sorted)>> \o InsertByTotalDescTiesFirst(Tail(sorted), c)

RECURSIVE InsertByTotalDesc(_, _)
InsertByTotalDesc(sorted, c) ==
    IF sorted = <<>> THEN <<c>>
    ELSE IF c.total > Head(sorted).total
         THEN <<c>> \o sorted
         ELSE <<Head(sorted)>> \o InsertByTotalDesc(Tail(sorted), c)

\* .sort((a, b) => b.total - a.total): Array.prototype.sort is stable
RECURSIVE SortByTotalDesc(_, _)
SortByTotalDesc(sorted, cats) ==
    IF cats = <<>> THEN sorted
    ELSE SortByTotalDesc(InsertByTotalDesc(sorted, Head(cats)), Tail(cats))

TopN == 5

\* ExpensesByCategory without its .sort(...)
ExpensesByCategoryUnsorted(currentMonthTransactions) ==
    Take(GroupByCategory(<<>>, OfType(currentMonthTransactions, "expense")), TopN)

ExpensesByCategory(currentMonthTransactions) ==
    Take(SortByTotalDesc(<<>>,
             GroupByCategory(<<>>, OfType(currentMonthTransactions, "expense"))),
         TopN)

SeriesMonths == 6

\* Array.from({ length: 6 }, (_, i) => new Date(currentYear, currentMonth - (5 - i), 1))
Last6Months ==
    [k \in 1..SeriesMonths |->
        LET d == LocalMonthStart(now.year, now.month - (SeriesMonths - k))
        IN  [month |-> ToMonthShort(d.monthNum), monthNum |-> d.monthNum, year |-> d.year]]

\* IncomeVsExpenses leaving out the months that have no transactions
IncomeVsExpensesSparse(rows) ==
    LET months == SelectSeq(Last6Months,
                      LAMBDA m : InMonth(rows, m.monthNum, m.year) # <<>>)
    IN  [k \in 1..Len(months) |->
            LET monthTransactions == InMonth(rows, months[k].monthNum, months[k].year)
            IN  [month |-> months[k].month,
                 income |-> SumField(OfType(monthTransactions, "income"), "amount"),
                 expenses |-> SumField(OfType(monthTransactions, "expense"), "amount")]]

IncomeVsExpenses(rows) ==
    [k \in 1..SeriesMonths |->
        LET m == Last6Months[k]
            monthTransactions == InMonth(rows, m.monthNum, m.year)
        IN  [month |-> m.month,
             income |-> SumField(OfType(monthTransactions, "income"), "amount"),
             expenses |-> SumField(OfType(monthTransactions, "expense"), "amount")]]

InitialData ==
    [totalBalance |-> 0, monthlyIncome |-> 0, monthlyExpenses |-> 0,
     totalLoans |-> 0, activeGoals |-> 0, recentTransactions |-> <<>>,
     expensesByCategory |-> <<>>, incomeVsExpenses |-> <<>>]

\* the value loadDashboardData passes to setData; each argument is a
\* response's data with null read as empty, which is what every use of it
\* (`res.data?.reduce(...) || 0`, `res.data?.filter(...) || []`,
\* `res.data || []`, `res.data?.length || 0`) makes of it
DashboardData(accountsData, transactionsData, loansData, goalsData) ==
    LET currentMonthTransactions == CurrentMonthTransactions(transactionsData)
    IN  [totalBalance |-> SumField(accountsData, "balance"),
         monthlyIncome |->
             SumField(OfType(currentMonthTransactions, "income"), "amount"),
         monthlyExpenses |->
             SumField(OfType(currentMonthTransactions, "expense"), "amount"),
         totalLoans |-> SumField(loansData, "current_balance"),
         activeGoals |-> Len(goalsData),
         recentTransactions |-> transactionsData,
         expensesByCategory |-> ExpensesByCategory(currentMonthTransactions),
         incomeVsExpenses |-> IncomeVsExpenses(transactionsData)]

----------------------------------------------------------------------------
(* Derived values the views compute while rendering *)

\* Accounts: the total shown above the cards
AccountsTotalBalance(accounts) == SumField(accounts, "balance")

\* Loans: the totals shown above the cards
TotalDebt(loans) == SumField(loans, "current_balance")

TotalMonthlyPayments(loans) == SumField(loans, "monthly_payment")

\* CreditScore: where the marker stands on the bar, in percent
MarkerPosition(currentScore) == JsTimes(JsDiv(currentScore - 300, 550), 100)

\* Dashboard: the net worth shown on the first card
NetWorthOfAssets(data) == data.totalBalance

NetWorth(data) == data.totalBalance - data.totalLoans

\* Dashboard: the savings rate shown on the fourth card
SavingsRateUnguarded(monthlyIncome, monthlyExpenses) ==
    JsTimes(JsDiv(monthlyIncome - monthlyExpenses, monthlyIncome), 100)

SavingsRate(monthlyIncome, monthlyExpenses) ==
    IF monthlyIncome > 0
    THEN JsTimes(JsDiv(monthlyIncome - monthlyExpenses, monthlyIncome), 100)
    ELSE Num(0)

\* Math.max(...xs) of a non-empty list of integers
RECURSIVE MaxOf(_)
MaxOf(xs) ==
    IF Len(xs) = 1 THEN xs[1] ELSE IntMax(xs[1], MaxOf(Tail(xs)))

\* Dashboard: the widths of the income and the expenses bar of every month,
\* both against the largest income of the series
IncomeBarWidths(series) ==
    [k \in 1..Len(series) |->
        MathMin(JsTimes(JsDiv(series[k].income,
                              MaxOf([j \in 1..Len(series) |-> series[j].income])),
                        100),
                Num(100))]

ExpensesBarWidths(series) ==
    [k \in 1..Len(series) |->
        MathMin(JsTimes(JsDiv(series[k].expenses,
                              MaxOf([j \in 1..Len(series) |-> series[j].income])),
                        100),
                Num(100))]

\* Dashboard: the width of every category bar against the largest total
CategoryPercentages(cats) ==
    [k \in 1..Len(cats) |->
        JsTimes(JsDiv(cats[k].total,
                      MaxOf([j \in 1..Len(cats) |-> cats[j].total])),
                100)]

\* Loans.calculateProgress with the roles of its arguments exchanged
LoansCalculateProgressSwapped(current, principal) ==
    JsTimes(JsDiv(principal - current, current), 100)

\* Loans.calculateProgress(current, principal)
LoansCalculateProgress(current, principal) ==
    JsTimes(JsDiv(principal - current, principal), 100)

\* Loans.calculateMonthsRemaining(endDate)
CalculateMonthsRemaining(endDate) ==
    IntMax(0, (GetFullYear(endDate) - now.year) * 12 + (GetMonth(endDate) - now.month))

\* Goals.calculateProgress(current, target)
GoalsCalculateProgress(current, target) ==
    MathMin(JsTimes(JsDiv(current, target), 100), Num(100))

NoCalc == [fn |-> "none"]

----------------------------------------------------------------------------
(* Chat: text and the advisor's reply.  A text is a sequence of characters, *)
(* each a string of length one.                                            *)

UpperCase ==
    <<"A", "B", "C", "D", "E", "F", "G", "H", "I", "J", "K", "L", "M",
      "N", "O", "P", "Q", "R", "S", "T", "U", "V", "W", "X", "Y", "Z">>

LowerCase ==
    <<"a", "b", "c", "d", "e", "f", "g", "h", "i", "j", "k", "l", "m",
      "n", "o", "p", "q", "r", "s", "t", "u", "v", "w", "x", "y", "z">>

\* String.prototype.toLowerCase
ToLowerCase(text) ==
    [i \in 1..Len(text) |->
        IF \E j \in 1..26 : UpperCase[j] = text[i]
        THEN LowerCase[CHOOSE j \in 1..26 : UpperCase[j] = text[i]]
        ELSE text[i]]

\* String.prototype.includes
Includes(text, sub) ==
    \E i \in 0..(Len(text) - Len(sub)) : SubSeq(text, i + 1, i + Len(sub)) = sub

\* String.prototype.trim
RECURSIVE TrimStart(_)
TrimStart(text) ==
    IF text # <<>> /\ Head(text) = " " THEN TrimStart(Tail(text)) ELSE text

Trim(text) == Reverse(TrimStart(Reverse(TrimStart(text))))

KwBudget == <<"b", "u", "d", "g", "e", "t">>

KwSpend == <<"s", "p", "e", "n", "d">>

KwSave == <<"s", "a", "v", "e">>

KwSaving == <<"s", "a", "v", "i", "n", "g">>

KwDebt == <<"d", "e", "b", "t">>

KwLoan == <<"l", "o", "a", "n">>

KwInvest == <<"i", "n", "v", "e", "s", "t">>

KwStock == <<"s", "t", "o", "c", "k">>

KwCreditScore == <<"c", "r", "e", "d", "i", "t", " ", "s", "c", "o", "r", "e">>

KwRetire == <<"r", "e", "t", "i", "r", "e">>

KwRetirement == <<"r", "e", "t", "i", "r", "e", "m", "e", "n", "t">>

KwEmergencyFund == <<"e", "m", "e", "r", "g", "e", "n", "c", "y", " ", "f", "u", "n", "d">>

KwHello == <<"h", "e", "l", "l", "o">>

KwHi == <<"h", "i">>

KwHey == <<"h", "e", "y">>

KwThank == <<"t", "h", "a", "n", "k">>

\* the chain of tests of generateAIResponse; a reply is named by its opening
\* words
ReplyFor(lowerMessage) ==
        IF Includes(lowerMessage, KwBudget) \/ Includes(lowerMessage, KwSpend)
        THEN "Great question about budgeting!"
        ELSE IF Includes(lowerMessage, KwSave) \/ Includes(lowerMessage, KwSaving)
        THEN "Excellent focus on savings!"
        ELSE IF Includes(lowerMessage, KwDebt) \/ Includes(lowerMessage, KwLoan)
        THEN "Managing debt is crucial for financial health."
        ELSE IF Includes(lowerMessage, KwInvest) \/ Includes(lowerMessage, KwStock)
        THEN "Investing is key to building wealth!"
        ELSE IF Includes(lowerMessage, KwCreditScore)
        THEN "Your credit score impacts loan rates and approval."
        ELSE IF Includes(lowerMessage, KwRetire) \/ Includes(lowerMessage, KwRetirement)
        THEN "Retirement planning is essential!"
        ELSE IF Includes(lowerMessage, KwEmergencyFund)
        THEN "An emergency fund is your financial safety net!"
        ELSE IF Includes(lowerMessage, KwHello) \/ Includes(lowerMessage, KwHi)
                \/ Includes(lowerMessage, KwHey)
        THEN "Hello! I'm your AI Financial Advisor."
        ELSE IF Includes(lowerMessage, KwThank)
        THEN "You're welcome!"
        ELSE "That's an interesting question!"

\* generateAIResponse made to look at the conversation so far
GenerateAIResponseWithHistory(userMessage) ==
    IF messages = <<>>
    THEN ReplyFor(ToLowerCase(userMessage))
    ELSE "That's an interesting question!"

\* generateAIResponse without the toLowerCase
GenerateAIResponseCaseSensitive(userMessage) == ReplyFor(userMessage)

\* generateAIResponse(userMessage)
GenerateAIResponse(userMessage) == ReplyFor(ToLowerCase(userMessage))

----------------------------------------------------------------------------
(* The inputs the model draws from *)

\* the clock: January and February 2025, so that the six-month window
\* always reaches back into 2024
NowChoices == {[year |-> 2025, month |-> 0], [year |-> 2025, month |-> 1]}

\* a time zone behind UTC and one ahead of it
TzChoices == {-5, 2}

TxForm(type, category, amount, date) ==
    [transaction_type |-> type, category |-> category, amount |-> amount,
     transaction_date |-> date]

\* what the Transactions form is submitted with
TxForms ==
    {TxForm("expense", "Groceries", 150, Date(2025, 1, 15)),
     TxForm("expense", "Dining", 50, Date(2025, 1, 15)),
     TxForm("expense", "Transportation", 50, Date(2025, 1, 15)),
     TxForm("expense", "Housing", 200, Date(2025, 1, 15)),
     TxForm("expense", "Utilities", 30, Date(2025, 1, 15)),
     TxForm("expense", "Entertainment", 20, Date(2025, 1, 15)),
     TxForm("expense", "Groceries", 70, Date(2025, 2, 1)),
     TxForm("income", "Salary", 1000, Date(2025, 1, 15)),
     TxForm("income", "Salary", 500, Date(2024, 12, 15))}

\* what the recent-transactions specification submits: two kinds of
\* transaction of the middle of January 2025
RecentForms ==
    {TxForm("expense", "Groceries", 150, Date(2025, 1, 15)),
     TxForm("income", "Salary", 1000, Date(2025, 1, 15))}

\* amounts a number input accepts (none of the forms sets a minimum)
Amounts == {u * 1000 : u \in (-2)..MaxUnits}

\* loan end dates
EndDates ==
    {Date(2024, 11, 15), Date(2024, 12, 15), Date(2025, 1, 1), Date(2025, 1, 15),
     Date(2025, 2, 1), Date(2025, 3, 1), Date(2025, 6, 30), Date(2026, 1, 15),
     Date(2026, 3, 1)}

\* the Goals form as useState initialises it and as handleSubmit resets it;
\* an amount left empty is 0
BlankGoalForm == [goal_name |-> "", target_amount |-> 0, current_amount |-> 0]

\* what the Goals form is filled in with
GoalForms == {[goal_name |-> "Car", target_amount |-> 10000, current_amount |-> 0]}

NoUpdateModal == [open |-> FALSE]

\* none of Accounts, Loans and CreditScore is rendered
NoListView == [view |-> "none"]

\* amounts typed into the Update Progress form
UpdateAmounts == {2000}

\* the Transactions form as useState initialises it and as handleSubmit
\* resets it: no category chosen (the clock of the model has no day; the
\* form's default date is taken as the 15th)
BlankTxForm ==
    TxForm("expense", "", 0, Date(now.year, now.month + 1, 15)) @@ [account_id |-> NoId]

\* fetched lists the bars of the Dashboard are drawn for: up to two rows
RenderedLists ==
    {<<>>}
    \cup {<<TransactionRow("1", f)>> : f \in TxForms}
    \cup {<<TransactionRow("1", f), TransactionRow("1", g)>> : f, g \in TxForms}

\* what is typed into the input of the Chat; one text is blank and one has
\* blanks around it
ChatInputs == {KwHi, KwSave, <<" ">>, <<" ">> \o KwHi \o <<" ">>}

\* no handleSend call is under way
NoSend == [pc |-> "idle", userMessage |-> <<>>, aiResponse |-> "", detached |-> FALSE]

\* the words of the messages typed into the Chat: the advisor's keywords
\* and words that hold none, one ("this") holding a keyword inside
AdvisorWords ==
    {KwBudget, KwSpend, KwSave, KwSaving, KwDebt, KwLoan, KwInvest, KwStock,
     KwCreditScore, KwRetire, KwRetirement, KwEmergencyFund, KwHello, KwHi, KwHey,
     KwThank,
     <<"c", "r", "e", "d", "i", "t">>, <<"f", "u", "n", "d">>,
     <<"t", "h", "i", "s">>, <<"w", "o", "w">>, <<"n", "o", "w">>}

\* a word in capitals
ToUpperCase(text) ==
    [i \in 1..Len(text) |->
        IF \E j \in 1..26 : LowerCase[j] = text[i]
        THEN UpperCase[CHOOSE j \in 1..26 : LowerCase[j] = text[i]]
        ELSE text[i]]

\* a word with a capital first letter
Capitalize(text) == ToUpperCase(SubSeq(text, 1, 1)) \o SubSeq(text, 2, Len(text))

CasedWords ==
    AdvisorWords \cup {ToUpperCase(w) : w \in AdvisorWords}
                 \cup {Capitalize(w) : w \in AdvisorWords}

\* messages of one word and of two
AdvisorMessages ==
    CasedWords \cup {v \o <<" ">> \o w : v \in CasedWords, w \in AdvisorWords}

----------------------------------------------------------------------------
(* Actions *)

\* AppContent renders one view at a time
NoViewMounted ==
    /\ dashLoad = "unmounted" /\ ~goalsMounted /\ ~transactionsMounted /\ ~chatMounted
    /\ listView = NoListView

\* Transactions.handleSubmit's insert, as the store sees it; the Dashboard
\* is not on screen while the Transactions view is
InsertTransaction(form, max) ==
    /\ user # NoUser
    /\ dashLoad = "unmounted"
    /\ BagCardinality(dbTransactions) < max
    /\ dbTransactions' = dbTransactions (+) SetToBag({TransactionRow(user.id, form)})
    /\ UNCHANGED <<envVars, dbAccounts, dbLoans, dbCreditScores, dbMessages, dbGoals, nextId, createdBy, dashVars, calc, viewVars>>

\* AppContent renders <Dashboard />: fresh state, and the effect calls
\* loadDashboardData, which issues its queries and awaits them
DashboardMount ==
    /\ user # NoUser
    /\ NoViewMounted
    /\ dashLoad' = "pending"
    /\ dashData' = InitialData
    /\ dashLoading' = TRUE
    /\ UNCHANGED <<envVars, dbVars, calc, viewVars>>

\* Promise.all fulfils: every query answered, each with data or with an
\* error (data: null); the aggregation runs, setData, finally setLoading(false)
LoadDashboardDataFulfilled ==
    /\ dashLoad = "pending"
    /\ \E accountsData \in Answers(dbAccounts, user.id),
          transactionsData \in RecentAnswers(dbTransactions, user.id),
          loansData \in Answers(dbLoans, user.id),
          goalsData \in Answers(dbGoals, user.id) :
          dashData' = DashboardData(accountsData, transactionsData, loansData, goalsData)
    /\ dashLoad' = "done"
    /\ dashLoading' = FALSE
    /\ UNCHANGED <<envVars, dbVars, calc, viewVars>>

\* Promise.all rejects (a query throws): catch logs, finally setLoading(false)
LoadDashboardDataRejected ==
    /\ dashLoad = "pending"
    /\ dashLoad' = "caught"
    /\ dashLoading' = FALSE
    /\ UNCHANGED <<envVars, dbVars, dashData, calc, viewVars>>

\* navigation away from the Dashboard: its state is gone
DashboardUnmount ==
    /\ dashLoad \in {"done", "caught"}
    /\ dashLoad' = "unmounted"
    /\ dashData' = InitialData
    /\ dashLoading' = TRUE
    /\ UNCHANGED <<envVars, dbVars, calc, viewVars>>

----------------------------------------------------------------------------
(* The Goals view *)

\* AppContent renders <Goals />: fresh state, and the effect calls loadGoals
GoalsMount ==
    /\ user # NoUser
    /\ NoViewMounted
    /\ BagCardinality(goalsOrphaned) <= MaxOrphaned
    /\ goalsMounted' = TRUE
    /\ goals' = <<>>
    /\ goalsLoading' = TRUE
    /\ goalsShowModal' = FALSE
    /\ goalsFormData' = BlankGoalForm
    /\ updateModal' = NoUpdateModal
    /\ goalsInFlight' = SetToBag({Sent})
    /\ goalsLast' = "none"
    /\ UNCHANGED <<envVars, dbVars, dashVars, calc, restVars, transactionsVars,
                   goalsOrphaned, goalsDiscarded>>

\* the store answers the query of a loadGoals call: with the rows it holds
\* now, with an error, or the request fails and the promise rejects
GoalsQueryAnswered ==
    /\ goalsMounted
    /\ BagIn(Sent, goalsInFlight)
    /\ \E answer \in {Fulfilled(Response(SelectGoals(dbGoals, user.id))),
                       Fulfilled(ErrorResponse), Rejected} :
          goalsInFlight' = Replace(goalsInFlight, Sent, answer)
    /\ UNCHANGED <<envVars, dbVars, dashVars, calc, restVars, transactionsVars, goalsMounted,
                   goals, goalsLoading, goalsShowModal, goalsFormData, updateModal,
                   goalsLast,
                   goalsOrphaned, goalsDiscarded>>

\* a loadGoals that calls setLoading(false) after setGoals, inside the try
LoadGoalsReturnsInsideTry ==
    /\ goalsMounted
    /\ \E p \in BagToSet(goalsInFlight) :
          /\ p.state # "sent"
          /\ goalsInFlight' = goalsInFlight (-) SetToBag({p})
          /\ IF p.state = "fulfilled" /\ p.res.ok
             THEN /\ goals' = DataOrEmpty(p.res)
                  /\ goalsLast' = "ok"
                  /\ goalsLoading' = FALSE
             ELSE /\ goals' = goals
                  /\ goalsLast' = IF p.state = "rejected" THEN "rejected" ELSE "error"
                  /\ goalsLoading' = goalsLoading
    /\ UNCHANGED <<envVars, dbVars, dashVars, calc, restVars, transactionsVars, goalsMounted,
                   goalsShowModal, goalsFormData, updateModal,
                   goalsOrphaned, goalsDiscarded>>

\* loadGoals after its await: setGoals(data || []) when the response has no
\* error; `throw error` and a rejected promise both end in the catch, which
\* logs; finally setLoading(false)
LoadGoalsReturns ==
    /\ goalsMounted
    /\ \E p \in BagToSet(goalsInFlight) :
          /\ p.state # "sent"
          /\ goalsInFlight' = goalsInFlight (-) SetToBag({p})
          /\ IF p.state = "fulfilled" /\ p.res.ok
             THEN /\ goals' = DataOrEmpty(p.res)
                  /\ goalsLast' = "ok"
             ELSE /\ goals' = goals
                  /\ goalsLast' = IF p.state = "rejected" THEN "rejected" ELSE "error"
    /\ goalsLoading' = FALSE
    /\ UNCHANGED <<envVars, dbVars, dashVars, calc, restVars, transactionsVars, goalsMounted,
                   goalsShowModal, goalsFormData, updateModal,
                   goalsOrphaned, goalsDiscarded>>

\* the page behind the modals can be clicked
GoalsPageActive ==
    goalsMounted /\ ~goalsLoading /\ ~goalsShowModal /\ updateModal = NoUpdateModal

\* "Add Goal": setShowModal(true)
GoalsOpenModal ==
    /\ GoalsPageActive
    /\ goalsShowModal' = TRUE
    /\ UNCHANGED <<envVars, dbVars, dashVars, calc, restVars, transactionsVars, goalsMounted,
                   goals, goalsLoading, goalsFormData, updateModal, goalsInFlight,
                   goalsLast,
                   goalsOrphaned, goalsDiscarded>>

\* the fields of the form: setFormData({ ...formData, field })
GoalsSetFormData(form) ==
    /\ goalsMounted /\ ~goalsLoading /\ goalsShowModal
    /\ goalsFormData # form
    /\ goalsFormData' = form
    /\ UNCHANGED <<envVars, dbVars, dashVars, calc, restVars, transactionsVars, goalsMounted,
                   goals, goalsLoading, goalsShowModal, updateModal, goalsInFlight,
                   goalsLast,
                   goalsOrphaned, goalsDiscarded>>

\* "Cancel" of the form: setShowModal(false)
GoalsCloseModal ==
    /\ goalsMounted /\ ~goalsLoading /\ goalsShowModal
    /\ goalsShowModal' = FALSE
    /\ UNCHANGED <<envVars, dbVars, dashVars, calc, restVars, transactionsVars, goalsMounted,
                   goals, goalsLoading, goalsFormData, updateModal, goalsInFlight,
                   goalsLast,
                   goalsOrphaned, goalsDiscarded>>

\* handleSubmit: the form's required fields are filled in.  The insert goes
\* through: the modal closes, the form is reset and loadGoals is called and
\* not awaited.  Or it fails (an error in the response, or a rejected
\* promise): the catch logs and nothing else happens.
GoalsHandleSubmit ==
    /\ goalsMounted /\ ~goalsLoading /\ goalsShowModal
    /\ user # NoUser
    /\ goalsFormData.goal_name # ""
    /\ \/ /\ nextId <= MaxRows
          /\ BagCardinality(goalsInFlight) < MaxGoalsInFlight
          /\ dbGoals' = dbGoals (+) SetToBag({GoalRow(nextId, user.id, goalsFormData)})
          /\ nextId' = nextId + 1
          /\ createdBy' = createdBy @@ (nextId :> user.name)
          /\ goalsShowModal' = FALSE
          /\ goalsFormData' = BlankGoalForm
          /\ goalsInFlight' = goalsInFlight (+) SetToBag({Sent})
       \/ UNCHANGED <<dbGoals, nextId, createdBy, goalsShowModal, goalsFormData, goalsInFlight>>
    /\ UNCHANGED <<envVars, dbTransactions, dbAccounts, dbLoans, dbCreditScores, dbMessages, dashVars, calc, restVars,
                   transactionsVars, goalsMounted, goals, goalsLoading, updateModal,
                   goalsLast,
                   goalsOrphaned, goalsDiscarded>>

\* "Update Progress" of a card: setUpdateModal({ goal, amount })
GoalsOpenUpdateModal(goal) ==
    /\ GoalsPageActive
    /\ updateModal' = [open |-> TRUE, goal |-> goal, amount |-> goal.current_amount]
    /\ UNCHANGED <<envVars, dbVars, dashVars, calc, restVars, transactionsVars, goalsMounted,
                   goals, goalsLoading, goalsShowModal, goalsFormData, goalsInFlight,
                   goalsLast,
                   goalsOrphaned, goalsDiscarded>>

\* the field of the Update Progress form
GoalsSetUpdateAmount(amount) ==
    /\ goalsMounted /\ ~goalsLoading /\ updateModal # NoUpdateModal
    /\ updateModal.amount # amount
    /\ updateModal' = [updateModal EXCEPT !.amount = amount]
    /\ UNCHANGED <<envVars, dbVars, dashVars, calc, restVars, transactionsVars, goalsMounted,
                   goals, goalsLoading, goalsShowModal, goalsFormData, goalsInFlight,
                   goalsLast,
                   goalsOrphaned, goalsDiscarded>>

\* "Cancel" of the Update Progress form: setUpdateModal(null)
GoalsCloseUpdateModal ==
    /\ goalsMounted /\ ~goalsLoading /\ updateModal # NoUpdateModal
    /\ updateModal' = NoUpdateModal
    /\ UNCHANGED <<envVars, dbVars, dashVars, calc, restVars, transactionsVars, goalsMounted,
                   goals, goalsLoading, goalsShowModal, goalsFormData, goalsInFlight,
                   goalsLast,
                   goalsOrphaned, goalsDiscarded>>

\* handleUpdateProgress: the update goes through (also when no row has the
\* id any more), the modal closes and loadGoals is called; or it fails
GoalsHandleUpdateProgress ==
    /\ goalsMounted /\ ~goalsLoading /\ updateModal # NoUpdateModal
    /\ \/ /\ BagCardinality(goalsInFlight) < MaxGoalsInFlight
          /\ dbGoals' = UpdateCurrentAmount(dbGoals, updateModal.goal.id, updateModal.amount)
          /\ updateModal' = NoUpdateModal
          /\ goalsInFlight' = goalsInFlight (+) SetToBag({Sent})
       \/ UNCHANGED <<dbGoals, updateModal, goalsInFlight>>
    /\ UNCHANGED <<envVars, dbTransactions, dbAccounts, dbLoans, dbCreditScores, dbMessages, nextId, createdBy, dashVars, calc, restVars,
                   transactionsVars, goalsMounted, goals, goalsLoading, goalsShowModal,
                   goalsFormData, goalsLast,
                   goalsOrphaned, goalsDiscarded>>

\* handleDelete of a card, confirmed: the delete goes through and loadGoals
\* is called; or it fails
GoalsHandleDelete(id) ==
    /\ GoalsPageActive
    /\ \/ /\ BagCardinality(goalsInFlight) < MaxGoalsInFlight
          /\ dbGoals' = DeleteEq(dbGoals, id)
          /\ goalsInFlight' = goalsInFlight (+) SetToBag({Sent})
       \/ UNCHANGED <<dbGoals, goalsInFlight>>
    /\ UNCHANGED <<envVars, dbTransactions, dbAccounts, dbLoans, dbCreditScores, dbMessages, nextId, createdBy, dashVars, calc, restVars,
                   transactionsVars, goalsMounted, goals, goalsLoading, goalsShowModal,
                   goalsFormData, updateModal, goalsLast,
                   goalsOrphaned, goalsDiscarded>>

\* navigation away from Goals (AppContent renders another view, or <Auth />
\* when the user becomes null): its state is gone; the loadGoals calls that
\* have not returned are not cancelled, their requests stay on their way
GoalsUnmount ==
    /\ goalsMounted
    /\ goalsMounted' = FALSE
    /\ goals' = <<>>
    /\ goalsLoading' = TRUE
    /\ goalsShowModal' = FALSE
    /\ goalsFormData' = BlankGoalForm
    /\ updateModal' = NoUpdateModal
    /\ goalsInFlight' = EmptyBag
    /\ goalsOrphaned' = goalsOrphaned (+) goalsInFlight
    /\ goalsLast' = "none"
    /\ UNCHANGED <<envVars, dbVars, dashVars, calc, restVars, transactionsVars,
                   goalsDiscarded>>

\* the store answers the query of a loadGoals call whose component has been
\* unmounted
GoalsOrphanAnswered ==
    /\ user # NoUser
    /\ BagIn(Sent, goalsOrphaned)
    /\ \E answer \in {Fulfilled(Response(SelectGoals(dbGoals, user.id))),
                       Fulfilled(ErrorResponse), Rejected} :
          goalsOrphaned' = Replace(goalsOrphaned, Sent, answer)
    /\ UNCHANGED <<envVars, dbVars, dashVars, calc, restVars, transactionsVars,
                   goalsMounted, goals, goalsLoading, goalsShowModal, goalsFormData,
                   updateModal, goalsInFlight, goalsLast, goalsDiscarded>>

\* a loadGoals that returns after the unmount and whose setGoals and
\* setLoading take effect all the same
LoadGoalsReturnsApplied ==
    /\ \E p \in BagToSet(goalsOrphaned) :
          /\ p.state # "sent"
          /\ goalsOrphaned' = goalsOrphaned (-) SetToBag({p})
          /\ goalsDiscarded' = p
          /\ goals' = IF p.state = "fulfilled" /\ p.res.ok
                      THEN DataOrEmpty(p.res) ELSE goals
    /\ goalsLoading' = FALSE
    /\ UNCHANGED <<envVars, dbVars, dashVars, calc, restVars, transactionsVars,
                   goalsMounted, goalsShowModal, goalsFormData,
                   updateModal, goalsInFlight, goalsLast>>

\* loadGoals after its await, in a component that has been unmounted:
\* setGoals and setLoading are called on the unmounted component, and React
\* ignores a state update of a component that is not mounted; a Goals view
\* mounted since has its own state and setters
LoadGoalsReturnsUnmounted ==
    /\ \E p \in BagToSet(goalsOrphaned) :
          /\ p.state # "sent"
          /\ goalsOrphaned' = goalsOrphaned (-) SetToBag({p})
          /\ goalsDiscarded' = p
    /\ UNCHANGED <<envVars, dbVars, dashVars, calc, restVars, transactionsVars,
                   goalsMounted, goals, goalsLoading, goalsShowModal, goalsFormData,
                   updateModal, goalsInFlight, goalsLast>>

----------------------------------------------------------------------------
(* The Transactions view *)

NoLoad == [transactions |-> "none", accounts |-> "none"]

\* select('id, account_name')
AccountOption(r) == [id |-> r.id, account_name |-> r.account_name]

AccountOptions(rows) == [i \in 1..Len(rows) |-> AccountOption(rows[i])]

\* one query of Promise.all([...]): on its way (res is read only once the
\* query has fulfilled), answered by the store, or failed
QueryPending == [settled |-> "pending", res |-> ErrorResponse]

QueryFulfilled(res) == [settled |-> "fulfilled", res |-> res]

QueryRejected == [settled |-> "rejected", res |-> ErrorResponse]

\* the two queries loadData hands to Promise.all
LoadDataQueries == {"transactions", "accounts"}

\* a loadData call whose queries have just been sent
LoadDataSent == [q \in LoadDataQueries |-> QueryPending]

\* what the store can answer to a query of loadData
LoadDataAnswers(q) ==
    {QueryFulfilled(ErrorResponse), QueryRejected} \cup
    IF q = "transactions"
    THEN {QueryFulfilled(Response(SelectTransactions(dbTransactions, user.id, rev))) :
             rev \in BOOLEAN}
    ELSE {QueryFulfilled(Response(AccountOptions(SelectEq(dbAccounts, user.id, FALSE))))}

\* a Promise.all that fulfils as soon as one of its promises has
PromiseAnyFulfilled(call) == \E q \in DOMAIN call : call[q].settled = "fulfilled"

\* Promise.all fulfils when every one of its promises has fulfilled
PromiseAllFulfilled(call) == \A q \in DOMAIN call : call[q].settled = "fulfilled"

\* Promise.all rejects as soon as one of its promises rejects
PromiseAllRejected(call) == \E q \in DOMAIN call : call[q].settled = "rejected"

\* the await of Promise.all returns or throws
PromiseAllSettled(call) == PromiseAllFulfilled(call) \/ PromiseAllRejected(call)

\* AppContent renders <Transactions />: fresh state, and the effect calls
\* loadData
TransactionsMount ==
    /\ user # NoUser
    /\ NoViewMounted
    /\ transactionsMounted' = TRUE
    /\ transactions' = <<>>
    /\ transactionsAccounts' = <<>>
    /\ transactionsLoading' = TRUE
    /\ transactionsShowModal' = FALSE
    /\ transactionsFormData' = BlankTxForm
    /\ transactionsInFlight' = SetToBag({LoadDataSent})
    /\ transactionsLast' = NoLoad
    /\ UNCHANGED <<envVars, dbVars, dashVars, calc, restVars, goalsVars>>

\* the store answers one of the queries of a loadData call that has not
\* returned: with its rows, with an error, or the request fails
TransactionsQueryAnswered(q) ==
    /\ transactionsMounted
    /\ \E p \in BagToSet(transactionsInFlight) :
          /\ p[q].settled = "pending"
          /\ \E answer \in LoadDataAnswers(q) :
                transactionsInFlight' =
                    Replace(transactionsInFlight, p, [p EXCEPT ![q] = answer])
    /\ UNCHANGED <<envVars, dbVars, dashVars, calc, restVars, goalsVars, transactionsMounted,
                   transactions, transactionsAccounts, transactionsLoading,
                   transactionsShowModal, transactionsFormData, transactionsLast>>

\* loadData after its await Promise.all([...]): when both queries have
\* fulfilled, setTransactions(transactionsRes.data || []) and
\* setAccounts(accountsRes.data || []), the responses' errors are not looked
\* at; when one has rejected, the catch, which logs; finally
\* setLoading(false)
LoadDataReturns ==
    /\ transactionsMounted
    /\ \E p \in BagToSet(transactionsInFlight) :
          /\ PromiseAllSettled(p)
          /\ transactionsInFlight' = transactionsInFlight (-) SetToBag({p})
          /\ IF PromiseAllFulfilled(p)
             THEN /\ transactions' = DataOrEmpty(p.transactions.res)
                  /\ transactionsAccounts' = DataOrEmpty(p.accounts.res)
                  /\ transactionsLast' =
                        [transactions |-> IF p.transactions.res.ok THEN "ok" ELSE "error",
                         accounts |-> IF p.accounts.res.ok THEN "ok" ELSE "error"]
             ELSE /\ transactions' = transactions
                  /\ transactionsAccounts' = transactionsAccounts
                  /\ transactionsLast' =
                        [transactions |-> "rejected", accounts |-> "rejected"]
    /\ transactionsLoading' = FALSE
    /\ UNCHANGED <<envVars, dbVars, dashVars, calc, restVars, goalsVars, transactionsMounted,
                   transactionsShowModal, transactionsFormData>>

\* "Add Transaction": setShowModal(true)
TransactionsOpenModal ==
    /\ transactionsMounted /\ ~transactionsLoading /\ ~transactionsShowModal
    /\ transactionsShowModal' = TRUE
    /\ UNCHANGED <<envVars, dbVars, dashVars, calc, restVars, goalsVars, transactionsMounted,
                   transactions, transactionsAccounts, transactionsLoading,
                   transactionsFormData, transactionsInFlight, transactionsLast>>

\* the fields of the form: setFormData({ ...formData, field })
TransactionsSetFormData(form) ==
    /\ transactionsMounted /\ ~transactionsLoading /\ transactionsShowModal
    /\ transactionsFormData # form @@ transactionsFormData
    /\ transactionsFormData' = form @@ transactionsFormData
    /\ UNCHANGED <<envVars, dbVars, dashVars, calc, restVars, goalsVars, transactionsMounted,
                   transactions, transactionsAccounts, transactionsLoading,
                   transactionsShowModal, transactionsInFlight, transactionsLast>>

\* the account select of the form, whose options are the accounts loaded:
\* setFormData({ ...formData, account_id })
TransactionsSetAccount(id) ==
    /\ transactionsMounted /\ ~transactionsLoading /\ transactionsShowModal
    /\ transactionsFormData.account_id # id
    /\ transactionsFormData' = [transactionsFormData EXCEPT !.account_id = id]
    /\ UNCHANGED <<envVars, dbVars, dashVars, calc, restVars, goalsVars, transactionsMounted,
                   transactions, transactionsAccounts, transactionsLoading,
                   transactionsShowModal, transactionsInFlight, transactionsLast>>

\* "Cancel" of the form: setShowModal(false)
TransactionsCloseModal ==
    /\ transactionsMounted /\ ~transactionsLoading /\ transactionsShowModal
    /\ transactionsShowModal' = FALSE
    /\ UNCHANGED <<envVars, dbVars, dashVars, calc, restVars, goalsVars, transactionsMounted,
                   transactions, transactionsAccounts, transactionsLoading,
                   transactionsFormData, transactionsInFlight, transactionsLast>>

\* handleSubmit: the form's required fields are filled in.  The insert goes
\* through: the modal closes, the form is reset and loadData is called and
\* not awaited.  Or it fails: the catch logs and nothing else happens.
TransactionsHandleSubmit ==
    /\ transactionsMounted /\ ~transactionsLoading /\ transactionsShowModal
    /\ user # NoUser
    /\ transactionsFormData.category # ""
    /\ \/ /\ nextId <= MaxRows
          /\ BagCardinality(transactionsInFlight) < MaxInFlight
          /\ dbTransactions' = dbTransactions
                 (+) SetToBag({StoredTransaction(nextId, user.id, transactionsFormData)})
          /\ nextId' = nextId + 1
          /\ createdBy' = createdBy @@ (nextId :> user.name)
          /\ transactionsShowModal' = FALSE
          /\ transactionsFormData' = BlankTxForm
          /\ transactionsInFlight' = transactionsInFlight (+) SetToBag({LoadDataSent})
       \/ UNCHANGED <<dbTransactions, nextId, createdBy, transactionsShowModal,
                      transactionsFormData, transactionsInFlight>>
    /\ UNCHANGED <<envVars, dbAccounts, dbLoans, dbCreditScores, dbMessages, dbGoals, dashVars, calc, restVars, goalsVars,
                   transactionsMounted, transactions, transactionsAccounts,
                   transactionsLoading, transactionsLast>>

\* handleDelete of a row, confirmed: the delete goes through and loadData is
\* called; or it fails
TransactionsHandleDelete(id) ==
    /\ transactionsMounted /\ ~transactionsLoading /\ ~transactionsShowModal
    /\ \/ /\ BagCardinality(transactionsInFlight) < MaxInFlight
          /\ dbTransactions' = DeleteEq(dbTransactions, id)
          /\ transactionsInFlight' = transactionsInFlight (+) SetToBag({LoadDataSent})
       \/ UNCHANGED <<dbTransactions, transactionsInFlight>>
    /\ UNCHANGED <<envVars, dbAccounts, dbLoans, dbCreditScores, dbMessages, dbGoals, nextId, createdBy, dashVars, calc, restVars,
                   goalsVars, transactionsMounted, transactions, transactionsAccounts,
                   transactionsLoading, transactionsShowModal, transactionsFormData,
                   transactionsLast>>

\* navigation away from Transactions
TransactionsUnmount ==
    /\ transactionsMounted
    /\ transactionsMounted' = FALSE
    /\ transactions' = <<>>
    /\ transactionsAccounts' = <<>>
    /\ transactionsLoading' = TRUE
    /\ transactionsShowModal' = FALSE
    /\ transactionsFormData' = BlankTxForm
    /\ transactionsInFlight' = EmptyBag
    /\ transactionsLast' = NoLoad
    /\ UNCHANGED <<envVars, dbVars, dashVars, calc, restVars, goalsVars>>

----------------------------------------------------------------------------
(* The Chat view *)

\* AppContent renders <Chat />: fresh state, and the effect calls
\* loadMessages.  (A handleSend call of an earlier visit has finished.)
ChatMount ==
    /\ user # NoUser
    /\ NoViewMounted
    /\ chatSend = NoSend
    /\ chatMounted' = TRUE
    /\ messages' = <<>>
    /\ input' = <<>>
    /\ chatLoading' = FALSE
    /\ chatInFlight' = SetToBag({Sent})
    /\ chatSend' = NoSend
    /\ UNCHANGED <<envVars, dbVars, dashVars, calc, goalsVars, transactionsVars, listView>>

\* the store answers the query of the effect's loadMessages call
ChatQueryAnswered ==
    /\ chatMounted
    /\ BagIn(Sent, chatInFlight)
    /\ \E answer \in {Fulfilled(Response(SelectMessages(dbMessages, user.id))),
                       Fulfilled(ErrorResponse), Rejected} :
          chatInFlight' = Replace(chatInFlight, Sent, answer)
    /\ UNCHANGED <<envVars, dbVars, dashVars, calc, goalsVars, transactionsVars, listView,
                   chatMounted, messages, input, chatLoading, chatSend>>

\* the effect's loadMessages after its await: setMessages(data || []), or
\* the catch, which logs
LoadMessagesReturns ==
    /\ chatMounted
    /\ \E p \in BagToSet(chatInFlight) :
          /\ p.state # "sent"
          /\ chatInFlight' = chatInFlight (-) SetToBag({p})
          /\ messages' = IF p.state = "fulfilled" /\ p.res.ok
                         THEN DataOrEmpty(p.res)
                         ELSE messages
    /\ UNCHANGED <<envVars, dbVars, dashVars, calc, goalsVars, transactionsVars, listView,
                   chatMounted, input, chatLoading, chatSend>>

\* the input field (disabled while loading) and the suggested questions:
\* setInput(text)
ChatSetInput(text) ==
    /\ chatMounted /\ ~chatLoading
    /\ input # text
    /\ input' = text
    /\ UNCHANGED <<envVars, dbVars, dashVars, calc, goalsVars, transactionsVars, listView,
                   chatMounted, messages, chatLoading, chatInFlight, chatSend>>

\* a handleSend that tests its input without trimming it
ChatHandleSendUntrimmed ==
    /\ chatMounted /\ ~chatLoading
    /\ chatSend = NoSend
    /\ IF input = <<>> \/ user = NoUser
       THEN UNCHANGED <<input, chatLoading, chatSend>>
       ELSE /\ input' = <<>>
            /\ chatLoading' = TRUE
            /\ chatSend' = [pc |-> "insertUser", userMessage |-> Trim(input),
                            aiResponse |-> "", detached |-> FALSE]
    /\ UNCHANGED <<envVars, dbVars, dashVars, calc, goalsVars, transactionsVars, listView,
                   chatMounted, messages, chatInFlight>>

\* handleSend up to its first await: returns on an input that is empty after
\* trimming or on a null user; else setInput(''), setLoading(true) and the
\* insert of the user's message is sent
ChatHandleSend ==
    /\ chatMounted /\ ~chatLoading
    /\ chatSend = NoSend
    /\ IF Trim(input) = <<>> \/ user = NoUser
       THEN UNCHANGED <<input, chatLoading, chatSend>>
       ELSE /\ input' = <<>>
            /\ chatLoading' = TRUE
            /\ chatSend' = [pc |-> "insertUser", userMessage |-> Trim(input),
                            aiResponse |-> "", detached |-> FALSE]
    /\ UNCHANGED <<envVars, dbVars, dashVars, calc, goalsVars, transactionsVars, listView,
                   chatMounted, messages, chatInFlight>>

\* the end of handleSend: finally setLoading(false), on the Chat the call
\* belongs to if it is still on screen
ChatSendEnds ==
    /\ chatLoading' = IF chatSend.detached THEN chatLoading ELSE FALSE
    /\ chatSend' = NoSend

\* the insert of the user's message returns.  Without an error:
\* generateAIResponse, and the insert of the reply is sent.  With an error
\* or a rejected promise: the catch logs, and finally.
ChatUserInsertReturns ==
    /\ chatSend.pc = "insertUser"
    /\ \/ /\ nextId <= MaxMessages
          /\ dbMessages' = dbMessages
                 (+) SetToBag({MessageRow(nextId, user.id, chatSend.userMessage, "user")})
          /\ nextId' = nextId + 1
          /\ createdBy' = createdBy @@ (nextId :> user.name)
          /\ chatSend' = [chatSend EXCEPT !.pc = "insertAi",
                             !.aiResponse = GenerateAIResponse(chatSend.userMessage)]
          /\ UNCHANGED chatLoading
       \/ /\ ChatSendEnds
          /\ UNCHANGED <<dbMessages, nextId, createdBy>>
    /\ UNCHANGED <<envVars, dbTransactions, dbAccounts, dbLoans, dbCreditScores, dbGoals, dashVars, calc,
                   goalsVars, transactionsVars, listView, chatMounted, messages, input,
                   chatInFlight>>

\* the insert of the reply returns.  Without an error: loadMessages is
\* called and awaited.  With an error or a rejected promise: catch, finally.
ChatAiInsertReturns ==
    /\ chatSend.pc = "insertAi"
    /\ \/ /\ nextId <= MaxMessages
          /\ dbMessages' = dbMessages
                 (+) SetToBag({MessageRow(nextId, user.id, chatSend.aiResponse, "ai")})
          /\ nextId' = nextId + 1
          /\ createdBy' = createdBy @@ (nextId :> user.name)
          /\ chatSend' = [chatSend EXCEPT !.pc = "loadMessages"]
          /\ UNCHANGED chatLoading
       \/ /\ ChatSendEnds
          /\ UNCHANGED <<dbMessages, nextId, createdBy>>
    /\ UNCHANGED <<envVars, dbTransactions, dbAccounts, dbLoans, dbCreditScores, dbGoals, dashVars, calc,
                   goalsVars, transactionsVars, listView, chatMounted, messages, input,
                   chatInFlight>>

\* the loadMessages call that handleSend awaits returns: setMessages with
\* the rows of the store, or its own catch; then the end of handleSend
ChatSendLoadReturns ==
    /\ chatSend.pc = "loadMessages"
    /\ \E res \in {Response(SelectMessages(dbMessages, user.id)), ErrorResponse} :
          messages' = IF res.ok /\ ~chatSend.detached THEN DataOrEmpty(res) ELSE messages
    /\ ChatSendEnds
    /\ UNCHANGED <<envVars, dbVars, dashVars, calc, goalsVars, transactionsVars, listView,
                   chatMounted, input, chatInFlight>>

\* navigation away from the Chat: its state is gone; a handleSend call
\* under way goes on, and what it sets afterwards is set on a component that
\* is no longer there
ChatUnmount ==
    /\ chatMounted
    /\ chatMounted' = FALSE
    /\ messages' = <<>>
    /\ input' = <<>>
    /\ chatLoading' = FALSE
    /\ chatInFlight' = EmptyBag
    /\ chatSend' = IF chatSend = NoSend THEN NoSend ELSE [chatSend EXCEPT !.detached = TRUE]
    /\ UNCHANGED <<envVars, dbVars, dashVars, calc, goalsVars, transactionsVars, listView>>

----------------------------------------------------------------------------
(* Number inputs.  The value of an <input type="number"> is the text typed *)
(* into it, here the sequence of its characters; the browser lets a form   *)
(* be submitted when the text is a valid floating-point number that meets  *)
(* the input's min, max and step, and the handler parses the text itself.  *)

DigitChars == <<"0", "1", "2", "3", "4", "5", "6", "7", "8", "9">>

IsDigit(c) == \E d \in 1..10 : DigitChars[d] = c

DigitValue(c) == (CHOOSE d \in 1..10 : DigitChars[d] = c) - 1

\* the digits a text starts with
RECURSIVE LeadingDigits(_)
LeadingDigits(text) ==
    IF text # <<>> /\ IsDigit(Head(text))
    THEN <<Head(text)>> \o LeadingDigits(Tail(text))
    ELSE <<>>

\* the number a series of digits writes; 0 for none
RECURSIVE DigitsValue(_)
DigitsValue(ds) ==
    IF ds = <<>> THEN 0
    ELSE DigitsValue(SubSeq(ds, 1, Len(ds) - 1)) * 10 + DigitValue(ds[Len(ds)])

\* text without its first n characters
Drop(text, n) == SubSeq(text, n + 1, Len(text))

StartsWith(text, chars) == text # <<>> /\ Head(text) \in chars

RECURSIVE Pow10(_)
Pow10(n) == IF n = 0 THEN 1 ELSE 10 * Pow10(n - 1)

\* the text read as a floating-point number, the way the browser reads the
\* value of a number input: an optional '-', digits, an optional fraction,
\* an optional exponent.  ok is whether the text is such a number; its
\* value is m * 10^e
ParseNumberInput(text) ==
    LET neg == StartsWith(text, {"-"})
        t1 == IF neg THEN Tail(text) ELSE text
        int == LeadingDigits(t1)
        t2 == Drop(t1, Len(int))
        dot == StartsWith(t2, {"."})
        frac == IF dot THEN LeadingDigits(Tail(t2)) ELSE <<>>
        t3 == IF dot THEN Drop(t2, 1 + Len(frac)) ELSE t2
        exp == StartsWith(t3, {"e", "E"})
        t4 == IF exp THEN Tail(t3) ELSE t3
        expNeg == exp /\ StartsWith(t4, {"-"})
        t5 == IF exp /\ StartsWith(t4, {"-", "+"}) THEN Tail(t4) ELSE t4
        expDigits == IF exp THEN LeadingDigits(t5) ELSE <<>>
        t6 == Drop(t5, Len(expDigits))
    IN  [ok |-> /\ int # <<>> \/ frac # <<>>
                /\ dot => frac # <<>>
                /\ exp => expDigits # <<>>
                /\ t6 = <<>>,
         m |-> (IF neg THEN -1 ELSE 1) * DigitsValue(int \o frac),
         e |-> (IF expNeg THEN -1 ELSE 1) * DigitsValue(expDigits) - Len(frac)]

\* min <= m * 10^e <= max, and m * 10^e - min is a whole number of steps of 1
InRangeAndStep(v, min, max) ==
    IF v.e >= 0
    THEN min <= v.m * Pow10(v.e) /\ v.m * Pow10(v.e) <= max
    ELSE /\ min * Pow10(0 - v.e) <= v.m
         /\ v.m <= max * Pow10(0 - v.e)
         /\ v.m % Pow10(0 - v.e) = 0

\* the constraint validation of the score input: required, min="300",
\* max="850", and the default step of 1
ScoreInputValid(text) ==
    /\ text # <<>>
    /\ ParseNumberInput(text).ok
    /\ InRangeAndStep(ParseNumberInput(text), 300, 850)

\* the number m * 10^e
DecimalNumber(m, e) ==
    IF e >= 0 THEN Num(m * Pow10(e)) ELSE Frac(m, Pow10(0 - e))

\* a parseFloat that reads no further than parseInt does
ParseFloatAsInt(text) ==
    LET neg == StartsWith(text, {"-"})
        t1 == IF StartsWith(text, {"-", "+"}) THEN Tail(text) ELSE text
        ds == LeadingDigits(t1)
    IN  IF ds = <<>> THEN NaN
        ELSE Num((IF neg THEN -1 ELSE 1) * DigitsValue(ds))

\* parseFloat(text): the longest start of the text that is a decimal
\* literal, a sign, digits, a fraction and an exponent that has digits, and
\* nothing of what comes after it; NaN when there is no digit
ParseFloat(text) ==
    LET neg == StartsWith(text, {"-"})
        t1 == IF StartsWith(text, {"-", "+"}) THEN Tail(text) ELSE text
        int == LeadingDigits(t1)
        t2 == Drop(t1, Len(int))
        dot == StartsWith(t2, {"."})
        frac == IF dot THEN LeadingDigits(Tail(t2)) ELSE <<>>
        t3 == IF dot THEN Drop(t2, 1 + Len(frac)) ELSE t2
        t4 == IF StartsWith(t3, {"e", "E"}) THEN Tail(t3) ELSE <<>>
        expNeg == StartsWith(t4, {"-"})
        t5 == IF StartsWith(t4, {"-", "+"}) THEN Tail(t4) ELSE t4
        expDigits == LeadingDigits(t5)
    IN  IF int = <<>> /\ frac = <<>> THEN NaN
        ELSE DecimalNumber((IF neg THEN -1 ELSE 1) * DigitsValue(int \o frac),
                           (IF expNeg THEN -1 ELSE 1) * DigitsValue(expDigits)
                              - Len(frac))

\* the constraint validation of the balance input: required and
\* step="0.01", no minimum and no maximum
BalanceInputValid(text) ==
    LET v == ParseNumberInput(text)
    IN  /\ text # <<>>
        /\ v.ok
        /\ v.e < -2 => v.m % Pow10(0 - v.e - 2) = 0

\* what a decimal column of the store holds after a number was written to
\* it, and gives back in a response: the number
StoredDecimal(x) == x

\* x + y on two numbers
JsPlus(x, y) ==
    IF x.k = "num" /\ y.k = "num" THEN Frac(x.n * y.d + y.n * x.d, x.d * y.d)
    ELSE NaN

\* parseInt(text): an optional sign and the digits that follow it, and
\* nothing of what comes after them; NaN when no digit follows (the value
\* of a number input has no leading white space to skip)
ParseInt(text) ==
    LET neg == StartsWith(text, {"-"})
        t1 == IF StartsWith(text, {"-", "+"}) THEN Tail(text) ELSE text
        ds == LeadingDigits(t1)
    IN  IF ds = <<>> THEN NaN
        ELSE (IF neg THEN -1 ELSE 1) * DigitsValue(ds)

----------------------------------------------------------------------------
(* The Accounts, Loans and CreditScore views.  The three components are   *)
(* one pattern: a list loaded on mount, an "Add" form in a modal and, but  *)
(* for CreditScore, a delete button on every card.  They differ in their   *)
(* table, their form and the order of their list.  AppContent renders one  *)
(* view at a time: listView is the state of the one it renders.            *)

ListViews == {"accounts", "loans", "credit_scores"}

\* the table a view reads and writes
ListTable(v) ==
    CASE v = "accounts" -> dbAccounts
      [] v = "loans" -> dbLoans
      [] v = "credit_scores" -> dbCreditScores

\* formData as useState initialises it and as handleSubmit resets it; a
\* number left empty is 0, but for the score, which is the text typed, and a
\* date left empty the day 0 (the optional institution of an account is
\* left out)
BlankListForm(v) ==
    CASE v = "accounts" ->
            [account_name |-> "", account_type |-> "checking", balance |-> 0]
      [] v = "loans" ->
            [loan_name |-> "", loan_type |-> "personal", principal_amount |-> 0,
             current_balance |-> 0, interest_rate |-> 0, monthly_payment |-> 0,
             start_date |-> Date(0, 0, 0), end_date |-> Date(0, 0, 0)]
      [] v = "credit_scores" ->
            [score |-> <<>>, score_date |-> Date(now.year, now.month + 1, 15),
             provider |-> "Self-reported"]

\* what the forms are filled in with: an account in credit and an overdrawn
\* one, a loan, a credit score
ListForms(v) ==
    CASE v = "accounts" ->
            {[account_name |-> "Cheque", account_type |-> "checking", balance |-> 1000],
             [account_name |-> "Card", account_type |-> "credit_card", balance |-> -500]}
      [] v = "loans" ->
            {[loan_name |-> "Car", loan_type |-> "auto", principal_amount |-> 20000,
              current_balance |-> 15000, interest_rate |-> 5, monthly_payment |-> 400,
              start_date |-> Date(2024, 1, 15), end_date |-> Date(2027, 1, 15)]}
      [] v = "credit_scores" ->
            {[score |-> <<"7", "0", "0">>, score_date |-> Date(2025, 1, 15),
              provider |-> "Self-reported"]}

\* the form's required fields are filled in
ListFormFilled(v, form) ==
    CASE v = "accounts" -> form.account_name # ""
      [] v = "loans" -> form.loan_name # ""
      [] v = "credit_scores" -> ScoreInputValid(form.score)

\* supabase.from(table).insert({ user_id, ...form }), the score of a credit
\* score as parseInt(formData.score); the store sets id and created_at
ListRow(v, id, uid, form) ==
    [id |-> id, user_id |-> uid, created_at |-> id]
    @@ (IF v = "credit_scores" THEN [score |-> ParseInt(form.score)] ELSE <<>>)
    @@ form
    @@ (IF v = "accounts" THEN [is_manual |-> TRUE] ELSE <<>>)

RECURSIVE InsertByScoreDateDesc(_, _)
InsertByScoreDateDesc(sorted, r) ==
    IF sorted = <<>> THEN <<r>>
    ELSE IF DateAfter(r.score_date, Head(sorted).score_date)
         THEN <<r>> \o sorted
         ELSE <<Head(sorted)>> \o InsertByScoreDateDesc(Tail(sorted), r)

\* .order('score_date', { ascending: false })
RECURSIVE OrderByScoreDateDesc(_, _)
OrderByScoreDateDesc(sorted, rows) ==
    IF rows = <<>> THEN sorted
    ELSE OrderByScoreDateDesc(InsertByScoreDateDesc(sorted, Head(rows)), Tail(rows))

\* the query of loadAccounts, loadLoans, loadScores
SelectList(v, uid) ==
    IF v = "credit_scores"
    THEN OrderByScoreDateDesc(<<>>, SelectEq(dbCreditScores, uid, FALSE))
    ELSE OrderByCreatedDesc(<<>>, SelectEq(ListTable(v), uid, FALSE))

\* the rows of a table after an insert into table `into`
InsertInto(table, into, row, bag) ==
    IF table = into THEN bag (+) SetToBag({row}) ELSE bag

\* the transactions table after the accounts row `id` has been deleted: no
\* row is deleted or changed, whether it refers to the account or not
OnAccountDelete(bag, id) == bag

\* AppContent renders <Accounts />, <Loans /> or <CreditScore />: fresh
\* state, and the effect calls the view's load
ListViewMount(v) ==
    /\ user # NoUser
    /\ NoViewMounted
    /\ listView' = [view |-> v, rows |-> <<>>, loading |-> TRUE, showModal |-> FALSE,
                    formData |-> BlankListForm(v), inFlight |-> SetToBag({Sent})]
    /\ UNCHANGED <<envVars, dbVars, dashVars, calc, goalsVars, transactionsVars, chatVars>>

\* the store answers the query of a load call: with the rows it holds now,
\* with an error, or the request fails and the promise rejects
ListViewQueryAnswered ==
    /\ listView # NoListView
    /\ BagIn(Sent, listView.inFlight)
    /\ \E answer \in {Fulfilled(Response(SelectList(listView.view, user.id))),
                       Fulfilled(ErrorResponse), Rejected} :
          listView' = [listView EXCEPT !.inFlight = Replace(@, Sent, answer)]
    /\ UNCHANGED <<envVars, dbVars, dashVars, calc, goalsVars, transactionsVars, chatVars>>

\* the load after its await: the setter of the list with `data || []` when
\* the response has no error; `throw error` and a rejected promise both end
\* in the catch, which logs; finally setLoading(false)
LoadListReturns ==
    /\ listView # NoListView
    /\ \E p \in BagToSet(listView.inFlight) :
          /\ p.state # "sent"
          /\ listView' =
                [listView EXCEPT
                    !.inFlight = @ (-) SetToBag({p}),
                    !.rows = IF p.state = "fulfilled" /\ p.res.ok
                             THEN DataOrEmpty(p.res) ELSE @,
                    !.loading = FALSE]
    /\ UNCHANGED <<envVars, dbVars, dashVars, calc, goalsVars, transactionsVars, chatVars>>

\* the "Add" button: setShowModal(true)
ListViewOpenModal ==
    /\ listView # NoListView
    /\ ~listView.loading /\ ~listView.showModal
    /\ listView' = [listView EXCEPT !.showModal = TRUE]
    /\ UNCHANGED <<envVars, dbVars, dashVars, calc, goalsVars, transactionsVars, chatVars>>

\* the fields of the form: setFormData({ ...formData, field })
ListViewSetFormData(form) ==
    /\ listView # NoListView
    /\ ~listView.loading /\ listView.showModal
    /\ listView.formData # form
    /\ listView' = [listView EXCEPT !.formData = form]
    /\ UNCHANGED <<envVars, dbVars, dashVars, calc, goalsVars, transactionsVars, chatVars>>

\* "Cancel" of the form: setShowModal(false)
ListViewCloseModal ==
    /\ listView # NoListView
    /\ ~listView.loading /\ listView.showModal
    /\ listView' = [listView EXCEPT !.showModal = FALSE]
    /\ UNCHANGED <<envVars, dbVars, dashVars, calc, goalsVars, transactionsVars, chatVars>>

\* handleSubmit: the form's required fields are filled in.  The insert goes
\* through: the modal closes, the form is reset and the load is called and
\* not awaited.  Or it fails (an error in the response, or a rejected
\* promise): the catch logs and nothing else happens.
ListViewHandleSubmit ==
    /\ listView # NoListView
    /\ ~listView.loading /\ listView.showModal
    /\ user # NoUser
    /\ ListFormFilled(listView.view, listView.formData)
    /\ \/ /\ nextId <= MaxRows
          /\ BagCardinality(listView.inFlight) < MaxInFlight
          /\ LET row == ListRow(listView.view, nextId, user.id, listView.formData)
             IN  /\ dbAccounts' = InsertInto("accounts", listView.view, row, dbAccounts)
                 /\ dbLoans' = InsertInto("loans", listView.view, row, dbLoans)
                 /\ dbCreditScores' =
                        InsertInto("credit_scores", listView.view, row, dbCreditScores)
          /\ nextId' = nextId + 1
          /\ createdBy' = createdBy @@ (nextId :> user.name)
          /\ listView' = [listView EXCEPT
                             !.showModal = FALSE,
                             !.formData = BlankListForm(listView.view),
                             !.inFlight = @ (+) SetToBag({Sent})]
       \/ UNCHANGED <<dbAccounts, dbLoans, dbCreditScores, nextId, createdBy, listView>>
    /\ UNCHANGED <<envVars, dbTransactions, dbGoals, dbMessages, dashVars, calc,
                   goalsVars, transactionsVars, chatVars>>

\* handleDelete of a card of Accounts or Loans, confirmed: the delete goes
\* through and the load is called; or it fails
ListViewHandleDelete(id) ==
    /\ listView # NoListView
    /\ listView.view \in {"accounts", "loans"}
    /\ ~listView.loading /\ ~listView.showModal
    /\ \/ /\ BagCardinality(listView.inFlight) < MaxInFlight
          /\ IF listView.view = "accounts"
             THEN /\ dbAccounts' = DeleteEq(dbAccounts, id)
                  /\ dbTransactions' = OnAccountDelete(dbTransactions, id)
                  /\ dbLoans' = dbLoans
             ELSE /\ dbLoans' = DeleteEq(dbLoans, id)
                  /\ UNCHANGED <<dbAccounts, dbTransactions>>
          /\ listView' = [listView EXCEPT !.inFlight = @ (+) SetToBag({Sent})]
       \/ UNCHANGED <<dbAccounts, dbLoans, dbTransactions, listView>>
    /\ UNCHANGED <<envVars, dbCreditScores, dbGoals, dbMessages, nextId, createdBy,
                   dashVars, calc, goalsVars, transactionsVars, chatVars>>

\* navigation away from the view: its state is gone, and the load calls
\* that have not returned will return into an unmounted component, where
\* they change nothing
ListViewUnmount ==
    /\ listView # NoListView
    /\ listView' = NoListView
    /\ UNCHANGED <<envVars, dbVars, dashVars, calc, goalsVars, transactionsVars, chatVars>>

-----------------------------------------------------------------------------
(* Authentication *)

\* the page is loaded (again): every component starts from its useState
\* values, the user is null, and what was under way in the page is gone;
\* the store keeps its rows
PageLoad ==
    /\ user' = NoUser
    /\ authLoading' = TRUE
    /\ signOutPressed' = FALSE
    /\ dashLoad' = "unmounted"
    /\ dashData' = InitialData
    /\ dashLoading' = TRUE
    /\ calc' = NoCalc
    /\ goalsMounted' = FALSE
    /\ goals' = <<>>
    /\ goalsLoading' = TRUE
    /\ goalsShowModal' = FALSE
    /\ goalsFormData' = BlankGoalForm
    /\ updateModal' = NoUpdateModal
    /\ goalsInFlight' = EmptyBag
    /\ goalsLast' = "none"
    /\ goalsOrphaned' = EmptyBag
    /\ goalsDiscarded' = NoCall
    /\ transactionsMounted' = FALSE
    /\ transactions' = <<>>
    /\ transactionsAccounts' = <<>>
    /\ transactionsLoading' = TRUE
    /\ transactionsShowModal' = FALSE
    /\ transactionsFormData' = BlankTxForm
    /\ transactionsInFlight' = EmptyBag
    /\ transactionsLast' = NoLoad
    /\ chatMounted' = FALSE
    /\ messages' = <<>>
    /\ input' = <<>>
    /\ chatLoading' = FALSE
    /\ chatInFlight' = EmptyBag
    /\ chatSend' = NoSend
    /\ listView' = NoListView
    /\ UNCHANGED <<now, tzOffset, dbVars>>

\* what AppContent returns: the loading line, the Auth screen, or the Layout
\* around the current view
AppContent ==
    IF authLoading THEN "Loading"
    ELSE IF user = NoUser THEN "Auth"
    ELSE "Layout"

\* the timer of AuthProvider's effect fires: setLoading(false)
AuthUserFetched ==
    /\ authLoading
    /\ authLoading' = FALSE
    /\ UNCHANGED <<now, tzOffset, user, signOutPressed, dbVars, dashVars, calc, viewVars>>

\* login(name), called from the Auth screen: setUser({ id: "1", name })
Login(name) ==
    /\ AppContent = "Auth"
    /\ user' = LoggedIn(name)
    /\ UNCHANGED <<now, tzOffset, authLoading, signOutPressed, dbVars, dashVars, calc,
                   viewVars>>

\* the view renderView returns for a view id
RenderView(currentView) ==
    CASE currentView = "dashboard" -> "Dashboard"
      [] currentView = "transactions" -> "Transactions"
      [] currentView = "accounts" -> "Accounts"
      [] currentView = "loans" -> "Loans"
      [] currentView = "goals" -> "Goals"
      [] currentView = "chat" -> "Chat"
      [] currentView = "credit" -> "CreditScore"
      [] OTHER -> "Dashboard"

\* Layout.handleSignOut: the context value holds user, loading, login and
\* logout, so the signOut that Layout takes from it is undefined; calling it
\* throws inside the try, the catch logs the error, and the user stays
HandleSignOut ==
    /\ AppContent = "Layout"
    /\ signOutPressed' = TRUE
    /\ UNCHANGED <<now, tzOffset, user, authLoading, dbVars, dashVars, calc, viewVars>>

----------------------------------------------------------------------------
(* Specifications *)

Init ==
    /\ now \in NowChoices
    /\ tzOffset \in TzChoices
    /\ user = LoggedIn("user")
    /\ authLoading = FALSE
    /\ signOutPressed = FALSE
    /\ dbTransactions = EmptyBag
    /\ dbAccounts = EmptyBag
    /\ dbLoans = EmptyBag
    /\ dbCreditScores = EmptyBag
    /\ dbGoals = EmptyBag
    /\ dbMessages = EmptyBag
    /\ nextId = 1
    /\ createdBy = <<>>
    /\ dashLoad = "unmounted"
    /\ dashData = InitialData
    /\ dashLoading = TRUE
    /\ calc = NoCalc
    /\ goalsMounted = FALSE
    /\ goals = <<>>
    /\ goalsLoading = TRUE
    /\ goalsShowModal = FALSE
    /\ goalsFormData = BlankGoalForm
    /\ updateModal = NoUpdateModal
    /\ goalsInFlight = EmptyBag
    /\ goalsLast = "none"
    /\ goalsOrphaned = EmptyBag
    /\ goalsDiscarded = NoCall
    /\ transactionsMounted = FALSE
    /\ transactions = <<>>
    /\ transactionsAccounts = <<>>
    /\ transactionsLoading = TRUE
    /\ transactionsShowModal = FALSE
    /\ transactionsFormData = BlankTxForm
    /\ transactionsInFlight = EmptyBag
    /\ transactionsLast = NoLoad
    /\ chatMounted = FALSE
    /\ messages = <<>>
    /\ input = <<>>
    /\ chatLoading = FALSE
    /\ chatInFlight = EmptyBag
    /\ chatSend = NoSend
    /\ listView = NoListView

\* the Dashboard over every store of at most MaxTx transactions
Next ==
    \/ \E form \in TxForms : InsertTransaction(form, MaxTx)
    \/ DashboardMount
    \/ LoadDashboardDataFulfilled
    \/ LoadDashboardDataRejected
    \/ DashboardUnmount

Spec == Init /\ [][Next]_vars

\* the recent-transactions query over stores of up to MaxStored rows
NextRecent ==
    \/ \E form \in RecentForms : InsertTransaction(form, MaxStored)
    \/ DashboardMount
    \/ LoadDashboardDataFulfilled
    \/ LoadDashboardDataRejected
    \/ DashboardUnmount

SpecRecent == Init /\ [][NextRecent]_vars

\* the form the Transactions view is filled in with in the views
\* specifications
ViewTxForms == {TxForm("expense", "Groceries", 150, Date(2025, 1, 15))}

\* the views read neither the clock nor the time zone: one of each
InitViews ==
    /\ Init
    /\ now = [year |-> 2025, month |-> 0]
    /\ tzOffset = -5

\* the Goals view over the goals it inserts, updates and deletes
NextGoals ==
    \/ GoalsMount
    \/ GoalsQueryAnswered
    \/ LoadGoalsReturns
    \/ GoalsOpenModal
    \/ \E form \in GoalForms : GoalsSetFormData(form)
    \/ GoalsCloseModal
    \/ GoalsHandleSubmit
    \/ \E i \in 1..Len(goals) : GoalsOpenUpdateModal(goals[i])
    \/ \E amount \in UpdateAmounts : GoalsSetUpdateAmount(amount)
    \/ GoalsCloseUpdateModal
    \/ GoalsHandleUpdateProgress
    \/ \E i \in 1..Len(goals) : GoalsHandleDelete(goals[i].id)
    \/ (goalsInFlight = EmptyBag /\ GoalsUnmount)

SpecGoals == InitViews /\ [][NextGoals]_vars

\* the Goals view left and entered again while its loads are on their way
NextUnmount ==
    \/ GoalsMount
    \/ GoalsQueryAnswered
    \/ LoadGoalsReturns
    \/ GoalsOpenModal
    \/ \E form \in GoalForms : GoalsSetFormData(form)
    \/ GoalsHandleSubmit
    \/ GoalsUnmount
    \/ GoalsOrphanAnswered
    \/ LoadGoalsReturnsUnmounted

SpecUnmount == InitViews /\ [][NextUnmount]_vars

\* the Transactions view over the transactions it inserts and deletes
NextTransactions ==
    \/ TransactionsMount
    \/ \E q \in LoadDataQueries : TransactionsQueryAnswered(q)
    \/ LoadDataReturns
    \/ TransactionsOpenModal
    \/ \E form \in ViewTxForms : TransactionsSetFormData(form)
    \/ TransactionsCloseModal
    \/ TransactionsHandleSubmit
    \/ \E i \in 1..Len(transactions) : TransactionsHandleDelete(transactions[i].id)
    \/ TransactionsUnmount

SpecTransactions == InitViews /\ [][NextTransactions]_vars

\* every view that writes to the store, one after the other; the user acts
\* on a view when none of its loads is on its way, and the Chat is asked one
\* question
NextStore ==
    \/ GoalsMount
    \/ GoalsQueryAnswered
    \/ LoadGoalsReturns
    \/ GoalsOpenModal
    \/ \E form \in GoalForms : GoalsSetFormData(form)
    \/ (goalsInFlight = EmptyBag /\ GoalsHandleSubmit)
    \/ \E i \in 1..Len(goals) : GoalsOpenUpdateModal(goals[i])
    \/ \E amount \in UpdateAmounts : GoalsSetUpdateAmount(amount)
    \/ (goalsInFlight = EmptyBag /\ GoalsHandleUpdateProgress)
    \/ /\ goalsInFlight = EmptyBag
       /\ \E i \in 1..Len(goals) : GoalsHandleDelete(goals[i].id)
    \/ (goalsInFlight = EmptyBag /\ GoalsUnmount)
    \/ TransactionsMount
    \/ \E q \in LoadDataQueries : TransactionsQueryAnswered(q)
    \/ LoadDataReturns
    \/ TransactionsOpenModal
    \/ \E form \in ViewTxForms : TransactionsSetFormData(form)
    \/ \E i \in 1..Len(transactionsAccounts) :
          TransactionsSetAccount(transactionsAccounts[i].id)
    \/ (transactionsInFlight = EmptyBag /\ TransactionsHandleSubmit)
    \/ /\ transactionsInFlight = EmptyBag
       /\ \E i \in 1..Len(transactions) : TransactionsHandleDelete(transactions[i].id)
    \/ (transactionsInFlight = EmptyBag /\ TransactionsUnmount)
    \/ \E v \in ListViews : ListViewMount(v)
    \/ ListViewQueryAnswered
    \/ LoadListReturns
    \/ ListViewOpenModal
    \/ /\ listView # NoListView
       /\ \E form \in ListForms(listView.view) : ListViewSetFormData(form)
    \/ (listView # NoListView /\ listView.inFlight = EmptyBag /\ ListViewHandleSubmit)
    \/ /\ listView # NoListView
       /\ listView.inFlight = EmptyBag
       /\ \E i \in 1..Len(listView.rows) : ListViewHandleDelete(listView.rows[i].id)
    \/ (listView # NoListView /\ listView.inFlight = EmptyBag /\ ListViewUnmount)
    \/ ChatMount
    \/ ChatQueryAnswered
    \/ LoadMessagesReturns
    \/ ChatSetInput(KwHi)
    \/ (dbMessages = EmptyBag /\ ChatHandleSend)
    \/ ChatUserInsertReturns
    \/ ChatAiInsertReturns
    \/ ChatSendLoadReturns
    \/ (chatSend = NoSend /\ chatInFlight = EmptyBag /\ ChatUnmount)

SpecStore == InitViews /\ [][NextStore]_vars

\* no table of the store holds a row
StoreEmpty ==
    /\ dbTransactions = EmptyBag /\ dbAccounts = EmptyBag /\ dbLoans = EmptyBag
    /\ dbCreditScores = EmptyBag /\ dbGoals = EmptyBag /\ dbMessages = EmptyBag

\* every data view with a load of its own, entered one after the other; the
\* user adds to an empty store and deletes, when none of the view's loads is
\* on its way
NextLoading ==
    \/ DashboardMount
    \/ LoadDashboardDataFulfilled
    \/ LoadDashboardDataRejected
    \/ DashboardUnmount
    \/ GoalsMount
    \/ GoalsQueryAnswered
    \/ LoadGoalsReturns
    \/ GoalsOpenModal
    \/ \E form \in GoalForms : GoalsSetFormData(form)
    \/ (StoreEmpty /\ goalsInFlight = EmptyBag /\ GoalsHandleSubmit)
    \/ /\ goalsInFlight = EmptyBag
       /\ \E i \in 1..Len(goals) : GoalsHandleDelete(goals[i].id)
    \/ (goalsInFlight = EmptyBag /\ GoalsUnmount)
    \/ TransactionsMount
    \/ \E q \in LoadDataQueries : TransactionsQueryAnswered(q)
    \/ LoadDataReturns
    \/ TransactionsOpenModal
    \/ \E form \in ViewTxForms : TransactionsSetFormData(form)
    \/ (StoreEmpty /\ transactionsInFlight = EmptyBag /\ TransactionsHandleSubmit)
    \/ /\ transactionsInFlight = EmptyBag
       /\ \E i \in 1..Len(transactions) : TransactionsHandleDelete(transactions[i].id)
    \/ (transactionsInFlight = EmptyBag /\ TransactionsUnmount)
    \/ \E v \in ListViews : ListViewMount(v)
    \/ ListViewQueryAnswered
    \/ LoadListReturns
    \/ ListViewOpenModal
    \/ /\ listView # NoListView
       /\ \E form \in ListForms(listView.view) : ListViewSetFormData(form)
    \/ /\ StoreEmpty /\ listView # NoListView /\ listView.inFlight = EmptyBag
       /\ ListViewHandleSubmit
    \/ /\ listView # NoListView
       /\ listView.inFlight = EmptyBag
       /\ \E i \in 1..Len(listView.rows) : ListViewHandleDelete(listView.rows[i].id)
    \/ (listView # NoListView /\ listView.inFlight = EmptyBag /\ ListViewUnmount)

\* the store answers every request, with data, with an error or with a
\* failure, and a promise that has settled resumes the call awaiting it
SpecLoading ==
    /\ InitViews
    /\ [][NextLoading]_vars
    /\ WF_vars(LoadDashboardDataFulfilled \/ LoadDashboardDataRejected)
    /\ WF_vars(GoalsQueryAnswered)
    /\ WF_vars(LoadGoalsReturns)
    /\ WF_vars(\E q \in LoadDataQueries : TransactionsQueryAnswered(q))
    /\ WF_vars(LoadDataReturns)
    /\ WF_vars(ListViewQueryAnswered)
    /\ WF_vars(LoadListReturns)

\* the views the Dashboard takes its balances from
BalanceViews == {"accounts", "loans"}

\* the Dashboard over the accounts and loans that their views insert and
\* delete, and over stored transactions
NextNetWorth ==
    \/ \E v \in BalanceViews : ListViewMount(v)
    \/ ListViewQueryAnswered
    \/ LoadListReturns
    \/ ListViewOpenModal
    \/ /\ listView # NoListView
       /\ \E form \in ListForms(listView.view) : ListViewSetFormData(form)
    \/ (listView # NoListView /\ listView.inFlight = EmptyBag /\ ListViewHandleSubmit)
    \/ /\ listView # NoListView
       /\ listView.inFlight = EmptyBag
       /\ \E i \in 1..Len(listView.rows) : ListViewHandleDelete(listView.rows[i].id)
    \/ (listView # NoListView /\ listView.inFlight = EmptyBag /\ ListViewUnmount)
    \/ \E form \in ViewTxForms : InsertTransaction(form, MaxRows)
    \/ DashboardMount
    \/ LoadDashboardDataFulfilled
    \/ LoadDashboardDataRejected
    \/ DashboardUnmount

SpecNetWorth == InitViews /\ [][NextNetWorth]_vars

\* what the amount input of the Transactions form takes: it is a number
\* input with step 0.01 and no minimum
SignedTxForms ==
    {TxForm("expense", "Groceries", 150, Date(2025, 1, 15)),
     TxForm("expense", "Groceries", -50, Date(2025, 1, 15))}

\* the Transactions view over the amounts its form accepts, and the
\* Dashboard over what it stored
NextAmounts ==
    \/ TransactionsMount
    \/ \E q \in LoadDataQueries : TransactionsQueryAnswered(q)
    \/ LoadDataReturns
    \/ TransactionsOpenModal
    \/ \E form \in SignedTxForms : TransactionsSetFormData(form)
    \/ TransactionsHandleSubmit
    \/ (transactionsInFlight = EmptyBag /\ TransactionsUnmount)
    \/ DashboardMount
    \/ LoadDashboardDataFulfilled
    \/ LoadDashboardDataRejected
    \/ DashboardUnmount

SpecAmounts == InitViews /\ [][NextAmounts]_vars

\* the "Score Ranges" card of the CreditScore view
ScoreRanges ==
    <<[min |-> 800, max |-> 850, label |-> "Exceptional"],
      [min |-> 740, max |-> 799, label |-> "Very Good"],
      [min |-> 670, max |-> 739, label |-> "Good"],
      [min |-> 580, max |-> 669, label |-> "Fair"],
      [min |-> 300, max |-> 579, label |-> "Poor"]>>

\* a getScoreRating that compares with > in place of >=
GetScoreRatingAbove(score) ==
    IF score > 800 THEN "Exceptional"
    ELSE IF score > 740 THEN "Very Good"
    ELSE IF score > 670 THEN "Good"
    ELSE IF score > 580 THEN "Fair"
    ELSE "Poor"

\* getScoreRating(score).label
GetScoreRating(score) ==
    IF score >= 800 THEN "Exceptional"
    ELSE IF score >= 740 THEN "Very Good"
    ELSE IF score >= 670 THEN "Good"
    ELSE IF score >= 580 THEN "Fair"
    ELSE "Poor"

\* null, as a current score, a rating or a trend
Null == [null |-> TRUE]

\* getScoreTrend()
GetScoreTrend(scores) ==
    IF Len(scores) < 2 THEN Null
    ELSE LET latest == scores[1].score
             previous == scores[2].score
             diff == latest - previous
         IN  [diff |-> diff, isPositive |-> diff >= 0]

\* currentScore, rating and trend of a render of the CreditScore view
CreditScoreDerived(scores) ==
    LET currentScore == IF Len(scores) > 0 THEN scores[1].score ELSE Null
    IN  [currentScore |-> currentScore,
         rating |-> IF Len(scores) > 0 /\ scores[1].score # 0
                    THEN GetScoreRating(currentScore) ELSE Null,
         trend |-> GetScoreTrend(scores)]

\* the scores getScoreRating is applied to
RatedScores == 300..850

\* the scores entered, each on one of two days
DatedScoreForms ==
    {[score |-> text, score_date |-> Date(2025, m, 15), provider |-> "Self-reported"] :
        text \in {<<"7", "2", "0">>, <<"6", "5", "0">>}, m \in {1, 2}}

\* what is typed into the score input
ScoreInputs ==
    {<<"7", "2", "0">>, <<"3", "0", "0">>, <<"8", "5", "0">>,
     <<"2", "9", "9">>, <<"8", "5", "1">>, <<"7", "0", "0", ".", "5">>,
     <<"7", "e", "2">>, <<"8", ".", "5", "e", "2">>}

ScoreForms ==
    {[score |-> text, score_date |-> Date(2025, 1, 15), provider |-> "Self-reported"] :
        text \in ScoreInputs}

\* the CreditScore view over what its form lets through
NextScores ==
    \/ ListViewMount("credit_scores")
    \/ ListViewQueryAnswered
    \/ LoadListReturns
    \/ ListViewOpenModal
    \/ \E form \in ScoreForms : ListViewSetFormData(form)
    \/ ListViewCloseModal
    \/ ListViewHandleSubmit
    \/ ListViewUnmount

SpecScores == InitViews /\ [][NextScores]_vars

\* no load call of the Goals view has failed
GoalsLoadsSucceed ==
    \A p \in BagToSet(goalsInFlight) :
       p.state # "rejected" /\ (p.state = "fulfilled" => p.res.ok)

\* the Goals view when no request fails: inserts, deletes and the reloads
\* they call without awaiting them, answered and returning in any order
NextRace ==
    \/ GoalsMount
    \/ (GoalsQueryAnswered /\ GoalsLoadsSucceed')
    \/ LoadGoalsReturns
    \/ GoalsOpenModal
    \/ \E form \in GoalForms : GoalsSetFormData(form)
    \/ GoalsHandleSubmit
    \/ \E i \in 1..Len(goals) : GoalsHandleDelete(goals[i].id)

SpecRace == InitViews /\ [][NextRace]_vars

\* the names people log in with
UserNames == {"user", "guest"}

\* people logging in one after the other, each using the Goals view
NextAuth ==
    \/ PageLoad
    \/ AuthUserFetched
    \/ \E name \in UserNames : Login(name)
    \/ GoalsMount
    \/ GoalsQueryAnswered
    \/ LoadGoalsReturns
    \/ GoalsOpenModal
    \/ \E form \in GoalForms : GoalsSetFormData(form)
    \/ GoalsHandleSubmit
    \/ (goalsInFlight = EmptyBag /\ GoalsUnmount)

SpecAuth == InitViews /\ [][NextAuth]_vars

\* people logging in and pressing Sign Out, with the Goals view in use
NextSignOut ==
    \/ PageLoad
    \/ AuthUserFetched
    \/ \E name \in UserNames : Login(name)
    \/ HandleSignOut
    \/ GoalsMount
    \/ GoalsQueryAnswered
    \/ LoadGoalsReturns
    \/ GoalsOpenModal
    \/ \E form \in GoalForms : GoalsSetFormData(form)
    \/ GoalsHandleSubmit
    \/ (goalsInFlight = EmptyBag /\ GoalsUnmount)

\* the timer of AuthProvider fires, and the store answers the requests
SpecSignOut ==
    /\ InitViews
    /\ [][NextSignOut]_vars
    /\ WF_vars(AuthUserFetched)
    /\ WF_vars(GoalsQueryAnswered)
    /\ WF_vars(LoadGoalsReturns)

\* a handleDelete that does not look at the answer to its prompt
GoalsDeleteWhateverAnswer(id, confirmed) == GoalsHandleDelete(id)

\* handleDelete from its first statement: confirm(...) is answered, and
\* the handler returns at once when the answer is Cancel
GoalsConfirmDelete(id, confirmed) ==
    IF confirmed THEN GoalsHandleDelete(id) ELSE GoalsPageActive /\ UNCHANGED vars

TransactionsConfirmDelete(id, confirmed) ==
    IF confirmed
    THEN TransactionsHandleDelete(id)
    ELSE /\ transactionsMounted /\ ~transactionsLoading /\ ~transactionsShowModal
         /\ UNCHANGED vars

ListViewConfirmDelete(id, confirmed) ==
    IF confirmed
    THEN ListViewHandleDelete(id)
    ELSE /\ listView # NoListView
         /\ listView.view \in {"accounts", "loans"}
         /\ ~listView.loading /\ ~listView.showModal
         /\ UNCHANGED vars

\* people logging in and using the views that have an add form, one view
\* after the other; each view adds to an empty store
NextForms ==
    \/ PageLoad
    \/ AuthUserFetched
    \/ \E name \in UserNames : Login(name)
    \/ GoalsMount
    \/ GoalsQueryAnswered
    \/ LoadGoalsReturns
    \/ GoalsOpenModal
    \/ \E form \in GoalForms : GoalsSetFormData(form)
    \/ GoalsCloseModal
    \/ (StoreEmpty /\ GoalsHandleSubmit)
    \/ \E i \in 1..Len(goals), confirmed \in BOOLEAN :
          GoalsConfirmDelete(goals[i].id, confirmed)
    \/ (goalsInFlight = EmptyBag /\ GoalsUnmount)
    \/ TransactionsMount
    \/ \E q \in LoadDataQueries : TransactionsQueryAnswered(q)
    \/ LoadDataReturns
    \/ TransactionsOpenModal
    \/ \E form \in ViewTxForms : TransactionsSetFormData(form)
    \/ TransactionsCloseModal
    \/ (StoreEmpty /\ TransactionsHandleSubmit)
    \/ \E i \in 1..Len(transactions), confirmed \in BOOLEAN :
          TransactionsConfirmDelete(transactions[i].id, confirmed)
    \/ (transactionsInFlight = EmptyBag /\ TransactionsUnmount)
    \/ \E v \in ListViews : ListViewMount(v)
    \/ ListViewQueryAnswered
    \/ LoadListReturns
    \/ ListViewOpenModal
    \/ /\ listView # NoListView
       /\ \E form \in ListForms(listView.view) : ListViewSetFormData(form)
    \/ ListViewCloseModal
    \/ (StoreEmpty /\ ListViewHandleSubmit)
    \/ /\ listView # NoListView
       /\ \E i \in 1..Len(listView.rows), confirmed \in BOOLEAN :
             ListViewConfirmDelete(listView.rows[i].id, confirmed)
    \/ (listView # NoListView /\ listView.inFlight = EmptyBag /\ ListViewUnmount)

SpecForms == InitViews /\ [][NextForms]_vars

\* the Chat over the messages it inserts
NextChat ==
    \/ ChatMount
    \/ ChatQueryAnswered
    \/ LoadMessagesReturns
    \/ \E text \in ChatInputs : ChatSetInput(text)
    \/ ChatHandleSend
    \/ ChatUserInsertReturns
    \/ ChatAiInsertReturns
    \/ ChatSendLoadReturns
    \/ ChatUnmount

SpecChat == InitViews /\ [][NextChat]_vars

----------------------------------------------------------------------------
(* The derived values as functions of their inputs: every action draws the *)
(* inputs of one of them and records what the view computes.               *)

\* Goals: progress of a goal card
RenderGoalProgress ==
    /\ calc = NoCalc
    /\ \E current, target \in Amounts :
          calc' = [fn |-> "Goals.calculateProgress",
                   current |-> current, target |-> target,
                   result |-> GoalsCalculateProgress(current, target)]
    /\ UNCHANGED <<envVars, dbVars, dashVars, viewVars>>

\* Loans: repayment progress of a loan card
RenderLoanProgress ==
    /\ calc = NoCalc
    /\ \E current, principal \in Amounts :
          calc' = [fn |-> "Loans.calculateProgress",
                   current |-> current, principal |-> principal,
                   result |-> LoansCalculateProgress(current, principal)]
    /\ UNCHANGED <<envVars, dbVars, dashVars, viewVars>>

\* Loans: months remaining of a loan card
RenderMonthsRemaining ==
    /\ calc = NoCalc
    /\ \E endDate \in EndDates :
          calc' = [fn |-> "Loans.calculateMonthsRemaining",
                   endDate |-> endDate,
                   result |-> CalculateMonthsRemaining(endDate)]
    /\ UNCHANGED <<envVars, dbVars, dashVars, viewVars>>

\* Dashboard: the savings rate card
RenderSavingsRate ==
    /\ calc = NoCalc
    /\ \E income, expenses \in Amounts :
          calc' = [fn |-> "Dashboard.savingsRate",
                   income |-> income, expenses |-> expenses,
                   result |-> SavingsRate(income, expenses)]
    /\ UNCHANGED <<envVars, dbVars, dashVars, viewVars>>

\* Dashboard: the bars of the two charts, for the data of a load
RenderBars ==
    /\ calc = NoCalc
    /\ \E rows \in RenderedLists :
          LET data == DashboardData(<<>>, rows, <<>>, <<>>)
          IN  calc' = [fn |-> "Dashboard.bars",
                       data |-> data,
                       incomeWidths |-> IncomeBarWidths(data.incomeVsExpenses),
                       expensesWidths |-> ExpensesBarWidths(data.incomeVsExpenses),
                       categoryWidths |-> CategoryPercentages(data.expensesByCategory)]
    /\ UNCHANGED <<envVars, dbVars, dashVars, viewVars>>

\* the view renders again
Rerender ==
    /\ calc # NoCalc
    /\ calc' = NoCalc
    /\ UNCHANGED <<envVars, dbVars, dashVars, viewVars>>

\* Chat: the reply handleSend gets for a message, and for the same message
\* typed in capitals and in small letters
AdvisorReplies ==
    /\ calc = NoCalc
    /\ \E userMessage \in AdvisorMessages :
          calc' = [fn |-> "Chat.generateAIResponse",
                   userMessage |-> userMessage,
                   result |-> GenerateAIResponse(userMessage),
                   resultUpper |-> GenerateAIResponse(ToUpperCase(userMessage)),
                   resultLower |-> GenerateAIResponse(ToLowerCase(userMessage))]
    /\ UNCHANGED <<envVars, dbVars, dashVars, viewVars>>

NextAdvisor ==
    \/ Rerender
    \/ AdvisorReplies

SpecAdvisor == InitViews /\ [][NextAdvisor]_vars

\* the digits of a text, one by one
DigitTexts == {<<DigitChars[d]>> : d \in 1..10}

\* what is typed into the balance input: amounts with two decimals, in
\* credit and overdrawn, and other ways of writing a number
BalanceInputs ==
    {sign \o int \o <<".">> \o a \o b :
        sign \in {<<>>, <<"-">>},
        int \in {<<"0">>, <<"9", "9">>, <<"1", "0", "0", "0">>},
        a \in DigitTexts, b \in DigitTexts}
    \cup {<<"1", "0", "0", "0">>, <<"1", "0", "0", "0", ".", "5">>,
          <<".", "5">>, <<"1", "e", "3">>, <<"1", ".", "5", "e", "-", "1">>,
          <<"1", "0", "0", "0", ".", "5", "0", "5">>, <<"-">>}

\* Accounts: an account is added with the balance typed, handleSubmit's
\* insert goes through, and the reload's row is shown: its balance, and
\* the total above the cards when it is the only account
AccountsInsertThenFetch ==
    /\ calc = NoCalc
    /\ \E text \in BalanceInputs :
          /\ BalanceInputValid(text)
          /\ LET stored == StoredDecimal(ParseFloat(text))
             IN  calc' = [fn |-> "Accounts.insertThenFetch",
                          text |-> text,
                          balance |-> stored,
                          totalBalance |-> JsPlus(Num(0), stored)]
    /\ UNCHANGED <<envVars, dbVars, dashVars, viewVars>>

NextRoundTrip ==
    \/ Rerender
    \/ AccountsInsertThenFetch

\* getScoreRating applied to a score
RenderScoreRating ==
    /\ calc = NoCalc
    /\ listView = NoListView /\ dbCreditScores = EmptyBag
    /\ \E score \in RatedScores :
          calc' = [fn |-> "CreditScore.getScoreRating", score |-> score,
                   label |-> GetScoreRating(score)]
    /\ UNCHANGED <<envVars, dbVars, dashVars, viewVars>>

\* the CreditScore view renders the list it holds
RenderCreditScore ==
    /\ calc = NoCalc
    /\ listView # NoListView
    /\ listView.view = "credit_scores" /\ ~listView.loading
    /\ calc' = [fn |-> "CreditScore", scores |-> listView.rows,
                derived |-> CreditScoreDerived(listView.rows)]
    /\ UNCHANGED <<envVars, dbVars, dashVars, viewVars>>

\* the CreditScore view over dated scores, rendered between the steps, and
\* getScoreRating over every score of the range
NextRating ==
    \/ Rerender
    \/ RenderScoreRating
    \/ RenderCreditScore
    \/ (calc = NoCalc /\ ListViewMount("credit_scores"))
    \/ (calc = NoCalc /\ ListViewQueryAnswered)
    \/ (calc = NoCalc /\ LoadListReturns)
    \/ (calc = NoCalc /\ ListViewOpenModal)
    \/ /\ calc = NoCalc
       /\ \E form \in DatedScoreForms : ListViewSetFormData(form)
    \/ (calc = NoCalc /\ ListViewHandleSubmit)
    \/ (calc = NoCalc /\ ListViewUnmount)

SpecRating == InitViews /\ [][NextRating]_vars

SpecRoundTrip == InitViews /\ [][NextRoundTrip]_vars

NextCalc ==
    \/ Rerender
    \/ RenderGoalProgress
    \/ RenderLoanProgress
    \/ RenderMonthsRemaining
    \/ RenderSavingsRate
    \/ RenderBars

SpecCalc == Init /\ [][NextCalc]_vars

----------------------------------------------------------------------------
(* Properties of the Dashboard aggregation *)

\* the sum of rows[i].amount over the indices i in I
RECURSIVE SumAmountsAt(_, _)
SumAmountsAt(rows, I) ==
    IF I = {} THEN 0
    ELSE LET i == CHOOSE x \in I : TRUE
         IN  rows[i].amount + SumAmountsAt(rows, I \ {i})

\* the fetched list the Dashboard holds
Fetched == dashData.recentTransactions

\* indices of the fetched expense transactions that loadDashboardData
\* counts into the current month
CurrentExpenseIdx ==
    {i \in 1..Len(Fetched) :
        /\ Fetched[i].transaction_type = "expense"
        /\ GetMonth(Fetched[i].transaction_date) = now.month
        /\ GetFullYear(Fetched[i].transaction_date) = now.year}

CurrentExpenseCategories == {Fetched[i].category : i \in CurrentExpenseIdx}

CategoryTotal(c) ==
    SumAmountsAt(Fetched, {i \in CurrentExpenseIdx : Fetched[i].category = c})

\* C1: after a load, the top-categories list holds distinct categories of
\* the current-month expenses of the fetched list, each with the sum of its
\* amounts, in non-increasing order of total; it holds all of them when
\* there are at most 5 and otherwise 5 whose totals no left-out category
\* exceeds.
C1_TopCategories ==
    dashLoad = "done" =>
        LET top == dashData.expensesByCategory
            listed == {top[i].category : i \in 1..Len(top)}
        IN  /\ Len(top) = IF Cardinality(CurrentExpenseCategories) < 5
                          THEN Cardinality(CurrentExpenseCategories) ELSE 5
            /\ \A i \in 1..Len(top) :
                  /\ top[i].category \in CurrentExpenseCategories
                  /\ top[i].total = CategoryTotal(top[i].category)
            /\ \A i, j \in 1..Len(top) :
                  i < j => /\ top[i].category # top[j].category
                           /\ top[i].total >= top[j].total
            /\ \A c \in CurrentExpenseCategories \ listed :
                  \A i \in 1..Len(top) : CategoryTotal(c) <= top[i].total

\* C1 witness: six categories of current-month expenses, five of them listed
C1_Witness ==
    /\ dashLoad = "done"
    /\ Cardinality(CurrentExpenseCategories) = 6
    /\ Len(dashData.expensesByCategory) = 5

\* the spec's example: Groceries 150 and Dining 50 in the current month
C1_Example ==
    (/\ dashLoad = "done"
     /\ Len(Fetched) = 2
     /\ \E i \in CurrentExpenseIdx :
           Fetched[i].category = "Groceries" /\ Fetched[i].amount = 150
     /\ \E i \in CurrentExpenseIdx :
           Fetched[i].category = "Dining" /\ Fetched[i].amount = 50)
    => dashData.expensesByCategory =
          <<[category |-> "Groceries", total |-> 150],
            [category |-> "Dining", total |-> 50]>>

\* the calendar month k places into the six-month window that ends at now
\* (k = 6 is now's month), counted from year 0
WindowMonthIndex(k) == now.year * 12 + now.month - (6 - k)

\* indices of the fetched transactions of a type that loadDashboardData
\* reads into window month k
ReadIntoWindowMonth(k, type) ==
    {i \in 1..Len(Fetched) :
        /\ Fetched[i].transaction_type = type
        /\ GetFullYear(Fetched[i].transaction_date) * 12
             + GetMonth(Fetched[i].transaction_date) = WindowMonthIndex(k)}

\* indices of the fetched transactions of a type dated in window month k
DatedInWindowMonth(k, type) ==
    {i \in 1..Len(Fetched) :
        /\ Fetched[i].transaction_type = type
        /\ Fetched[i].transaction_date.y * 12
             + (Fetched[i].transaction_date.m - 1) = WindowMonthIndex(k)}

C4_SeriesBuckets ==
    dashLoad = "done" =>
        /\ Len(dashData.incomeVsExpenses) = 6
        /\ \A k \in 1..6 :
              /\ dashData.incomeVsExpenses[k].month
                    = MonthShort[(WindowMonthIndex(k) % 12) + 1]
              /\ dashData.incomeVsExpenses[k].income
                    = SumAmountsAt(Fetched, DatedInWindowMonth(k, "income"))
              /\ dashData.incomeVsExpenses[k].expenses
                    = SumAmountsAt(Fetched, DatedInWindowMonth(k, "expense"))

\* what the code does instead: each transaction is counted in the month its
\* date, taken as midnight UTC, has in local time
C4_SeriesBucketsAsRead ==
    dashLoad = "done" =>
        /\ Len(dashData.incomeVsExpenses) = 6
        /\ \A k \in 1..6 :
              /\ dashData.incomeVsExpenses[k].month
                    = MonthShort[(WindowMonthIndex(k) % 12) + 1]
              /\ dashData.incomeVsExpenses[k].income
                    = SumAmountsAt(Fetched, ReadIntoWindowMonth(k, "income"))
              /\ dashData.incomeVsExpenses[k].expenses
                    = SumAmountsAt(Fetched, ReadIntoWindowMonth(k, "expense"))

\* the user's stored transactions of a type dated in now's month and year,
\* summed
StoredMonthTotal(type) ==
    LET rows == SelectEq(dbTransactions, user.id, FALSE)
    IN  SumAmountsAt(rows,
            {i \in 1..Len(rows) :
                /\ rows[i].transaction_type = type
                /\ rows[i].transaction_date.y = now.year
                /\ rows[i].transaction_date.m - 1 = now.month})

\* C2: after a load that fetched transactions, monthly income and monthly
\* expenses are the sums over all of the user's stored transactions of that
\* type dated in now's month and year.
C2_MonthlyTotals ==
    (dashLoad = "done" /\ Fetched # <<>>) =>
        /\ dashData.monthlyIncome = StoredMonthTotal("income")
        /\ dashData.monthlyExpenses = StoredMonthTotal("expense")

----------------------------------------------------------------------------
(* Properties of the derived values *)

\* x = n / d for integers n and d # 0
IsQuotient(x, n, d) == x.k = "num" /\ x.n * d = n * x.d

InPercentRange(x) == x.k = "num" /\ 0 <= x.n /\ x.n <= 100 * x.d

\* C5: goal progress lies in [0, 100]: it is current / target * 100 when
\* that is at most 100 and 100 otherwise.
C5_GoalProgressRange ==
    calc.fn = "Goals.calculateProgress" =>
        /\ InPercentRange(calc.result)
        /\ \/ IsQuotient(calc.result, calc.current * 100, calc.target)
           \/ calc.result = Num(100)

\* C6: no derived value is NaN or infinite.
C6_NoNaNOrInfinity ==
    /\ calc.fn \in {"Goals.calculateProgress", "Loans.calculateProgress",
                    "Dashboard.savingsRate"}
          => IsFinite(calc.result)
    /\ calc.fn = "Dashboard.bars" =>
          /\ \A k \in 1..Len(calc.incomeWidths) : IsFinite(calc.incomeWidths[k])
          /\ \A k \in 1..Len(calc.expensesWidths) : IsFinite(calc.expensesWidths[k])
          /\ \A k \in 1..Len(calc.categoryWidths) : IsFinite(calc.categoryWidths[k])

\* C7: the savings rate is 0 when monthly income is not greater than 0 and
\* (income - expenses) / income * 100 otherwise; it is never NaN or infinite,
\* and never above 100 when expenses are not negative.
C7_SavingsRate ==
    calc.fn = "Dashboard.savingsRate" =>
        /\ calc.income <= 0 => calc.result = Num(0)
        /\ calc.income > 0 =>
              IsQuotient(calc.result, (calc.income - calc.expenses) * 100, calc.income)
        /\ IsFinite(calc.result)
        /\ calc.expenses >= 0 => calc.result.n <= 100 * calc.result.d

\* C7 witness: no income and some expenses
C7_Witness ==
    /\ calc.fn = "Dashboard.savingsRate"
    /\ calc.income = 0
    /\ calc.expenses > 0
    /\ calc.result = Num(0)

\* C8: months remaining is the month difference between the end date and
\* now, and 0 when that is negative.
C8_MonthsRemaining ==
    calc.fn = "Loans.calculateMonthsRemaining" =>
        LET months == (calc.endDate.y - now.year) * 12
                        + ((calc.endDate.m - 1) - now.month)
        IN  calc.result = IF months < 0 THEN 0 ELSE months

\* what holds of months remaining whatever the time zone: it is never
\* negative, and 0 for an end date in a month before now's
C8_MonthsRemainingFloor ==
    calc.fn = "Loans.calculateMonthsRemaining" =>
        /\ calc.result >= 0
        /\ (calc.endDate.y * 12 + (calc.endDate.m - 1) < now.year * 12 + now.month)
              => calc.result = 0

\* C9: for a loan with principal > 0, progress is
\* (principal - current_balance) / principal * 100, and it lies in [0, 100]
\* exactly when 0 <= current_balance <= principal.
C9_LoanProgress ==
    (calc.fn = "Loans.calculateProgress" /\ calc.principal > 0) =>
        /\ IsQuotient(calc.result, (calc.principal - calc.current) * 100, calc.principal)
        /\ InPercentRange(calc.result)
              <=> (0 <= calc.current /\ calc.current <= calc.principal)

\* C9 witness: principal 10000 and current balance 8000 give 20
C9_Witness ==
    /\ calc.fn = "Loans.calculateProgress"
    /\ calc.principal = 10000
    /\ calc.current = 8000
    /\ calc.result = Num(20)

----------------------------------------------------------------------------
(* Properties of the views' loads *)

\* C10: when a fetch fails -- the first of a view or a reload after an
\* earlier successful load -- the view ends with an empty collection and
\* loading = false: Goals after a loadGoals that failed, Transactions with
\* each of its two collections after a loadData whose query failed, the
\* Dashboard after a loadDashboardData that failed.
C10_FailedFetchLeavesEmpty ==
    /\ goalsLast \in {"error", "rejected"} => goals = <<>> /\ ~goalsLoading
    /\ transactionsLast.transactions \in {"error", "rejected"}
          => transactions = <<>> /\ ~transactionsLoading
    /\ transactionsLast.accounts \in {"error", "rejected"}
          => transactionsAccounts = <<>> /\ ~transactionsLoading
    /\ dashLoad = "caught" => dashData = InitialData /\ ~dashLoading

\* what the code does keep: a load that has returned, however it ended,
\* leaves loading = false, and a first load that failed leaves the
\* collection as it was initialised, empty
C10_FailedFetchStopsLoading ==
    /\ goalsLast # "none" => ~goalsLoading
    /\ transactionsLast # NoLoad => ~transactionsLoading
    /\ dashLoad \in {"done", "caught"} => ~dashLoading
    /\ dashLoad = "caught" => dashData = InitialData

----------------------------------------------------------------------------
(* Properties of the advisor *)

\* the rules in their priority order: the keywords of each and its reply
AdvisorRules ==
    <<[name |-> "budget/spend", keywords |-> {KwBudget, KwSpend},
       reply |-> "Great question about budgeting!"],
      [name |-> "save", keywords |-> {KwSave, KwSaving},
       reply |-> "Excellent focus on savings!"],
      [name |-> "debt/loan", keywords |-> {KwDebt, KwLoan},
       reply |-> "Managing debt is crucial for financial health."],
      [name |-> "invest", keywords |-> {KwInvest, KwStock},
       reply |-> "Investing is key to building wealth!"],
      [name |-> "credit score", keywords |-> {KwCreditScore},
       reply |-> "Your credit score impacts loan rates and approval."],
      [name |-> "retire", keywords |-> {KwRetire, KwRetirement},
       reply |-> "Retirement planning is essential!"],
      [name |-> "emergency fund", keywords |-> {KwEmergencyFund},
       reply |-> "An emergency fund is your financial safety net!"],
      [name |-> "greeting", keywords |-> {KwHello, KwHi, KwHey},
       reply |-> "Hello! I'm your AI Financial Advisor."],
      [name |-> "thanks", keywords |-> {KwThank},
       reply |-> "You're welcome!"]>>

FallbackReply == "That's an interesting question!"

\* the keyword occurs in the text at some position, letter case aside
Occurs(keyword, text) ==
    \E from \in 1..Len(text) :
        /\ from + Len(keyword) - 1 <= Len(text)
        /\ \A k \in 1..Len(keyword) :
              ToLowerCase(<<text[from + k - 1]>>) = <<keyword[k]>>

\* the rules an input matches
MatchingRules(text) ==
    {r \in 1..Len(AdvisorRules) : \E kw \in AdvisorRules[r].keywords : Occurs(kw, text)}

\* C15: the reply is that of the first rule, in the fixed priority order,
\* that the lower-cased input matches; an input matching several rules gets
\* the reply of the earliest, an input matching none gets the fallback, and
\* the same input in another letter case gets the same reply.
C15_FirstMatchingRule ==
    calc.fn = "Chat.generateAIResponse" =>
        LET matching == MatchingRules(calc.userMessage)
        IN  /\ matching = {} => calc.result = FallbackReply
            /\ matching # {} =>
                  calc.result =
                     AdvisorRules[CHOOSE r \in matching : \A q \in matching : r <= q].reply
            /\ calc.resultUpper = calc.result
            /\ calc.resultLower = calc.result

\* C15 witness: a message in capitals that matches two rules, save and
\* budget/spend, and gets the reply of budget/spend
C15_Witness ==
    /\ calc.fn = "Chat.generateAIResponse"
    /\ calc.userMessage = ToUpperCase(KwSave \o <<" ">>) \o KwBudget
    /\ MatchingRules(calc.userMessage) = {1, 2}
    /\ calc.result = "Great question about budgeting!"

----------------------------------------------------------------------------
(* Properties of the Chat *)

UserRows == {r \in BagToSet(dbMessages) : r.sender = "user"}

AiRows == {r \in BagToSet(dbMessages) : r.sender = "ai"}

\* the stored replies to a stored user message: handleSend inserts the
\* reply right after the message
RepliesTo(u) == {a \in AiRows : a.id = u.id + 1}

\* C16: one reply per input, and the reply depends on the input text only:
\* every stored reply is the reply to one stored user message, no message
\* has more than one, the reply a send is about to insert is the one reply
\* of the advisor's rules, and two messages of the same text, sent after
\* different conversation histories, have the same reply.
C16_ReplyDependsOnInputOnly ==
    /\ \A a \in AiRows : \E u \in UserRows : a \in RepliesTo(u)
    /\ \A u \in UserRows : Cardinality(RepliesTo(u)) <= 1
    /\ chatSend.pc \in {"insertAi", "loadMessages"} =>
          chatSend.aiResponse \in
             {AdvisorRules[r].reply : r \in 1..Len(AdvisorRules)} \cup {FallbackReply}
    /\ \A u1, u2 \in UserRows :
          \A a1 \in RepliesTo(u1), a2 \in RepliesTo(u2) :
             u1.message = u2.message => a1.message = a2.message

\* C16 witness: the same message sent twice and answered twice, the first
\* time into an empty conversation, the second time after the first exchange
\* had been loaded into the view
C16_Witness ==
    /\ \E u1, u2 \in UserRows :
          /\ u1.id = 1 /\ u2.id = 3
          /\ u1.message = u2.message
          /\ RepliesTo(u1) # {} /\ RepliesTo(u2) # {}
    /\ chatSend.pc = "loadMessages"
    /\ Len(messages) = 2

\* a step in which an insert of handleSend fails, on a Chat still on screen
ChatInsertFails ==
    /\ chatSend.pc \in {"insertUser", "insertAi"}
    /\ chatSend'.pc = "idle"
    /\ ~chatSend.detached

\* C11: a write that fails is a no-op for the view; for the Chat, whose
\* form is the input field: when an insert of handleSend fails, the fetched
\* messages are as before, no reload is issued, and the input holds the
\* text it held when the send began.  (The handlers of the views with a
\* modal change nothing at all when their write fails.)
C11_FailedWriteIsNoOp ==
    [][ChatInsertFails =>
          /\ messages' = messages
          /\ chatInFlight' = chatInFlight
          /\ Trim(input') = chatSend.userMessage]_vars

\* what the code keeps when an insert of handleSend fails: the fetched
\* messages stay, no reload is issued and loading ends; the input stays
\* empty
C11_FailedSendKeepsMessages ==
    [][ChatInsertFails =>
          /\ messages' = messages
          /\ chatInFlight' = chatInFlight
          /\ input' = <<>>
          /\ ~chatLoading']_vars

----------------------------------------------------------------------------
(* Properties of authentication *)

\* C12: no record is shared across users: a goal created while one user
\* was logged in is never returned by a fetch issued while a different user
\* is logged in -- neither in a response on its way to the Goals view nor in
\* the list the view holds.
C12_NoRecordAcrossUsers ==
    goalsMounted =>
        /\ \A i \in 1..Len(goals) : createdBy[goals[i].id] = user.name
        /\ \A p \in BagToSet(goalsInFlight) :
              (p.state = "fulfilled" /\ p.res.ok) =>
                 \A i \in 1..Len(p.res.rows) : createdBy[p.res.rows[i].id] = user.name

\* what the reads do keep: every row a fetch returns has the user_id of
\* the user logged in
C12_FetchFilteredByUserId ==
    goalsMounted => \A i \in 1..Len(goals) : goals[i].user_id = user.id

-----------------------------------------------------------------------------
(* Loads that await several queries together *)

\* the data loadData sets
TransactionsData == <<transactions, transactionsAccounts>>

\* a loadData call p returns in this step
LoadDataReturnsFrom(p) ==
    /\ BagIn(p, transactionsInFlight)
    /\ transactionsInFlight' = transactionsInFlight (-) SetToBag({p})

-----------------------------------------------------------------------------
(* Loads that return after their view has been unmounted *)

\* the state of the Goals view
GoalsState == <<goals, goalsLoading, goalsShowModal, goalsFormData, updateModal>>

\* the loadGoals call p returns in this step into an unmounted component
ReturnsUnmounted(p) ==
    /\ BagIn(p, goalsOrphaned)
    /\ goalsOrphaned' = goalsOrphaned (-) SetToBag({p})

-----------------------------------------------------------------------------
(* What the writes leave alone *)

\* the tables other than accounts
OtherThanAccounts == <<dbTransactions, dbLoans, dbCreditScores, dbGoals, dbMessages>>

\* C17: a step of the Accounts view that removes an account removes the one
\* row whose card was clicked: every other account, and every row of the
\* other tables, the transactions that refer to the account included, is
\* stored afterwards as it was before
C17_AccountDeleteOnlyThatRow ==
    [][(listView.view = "accounts" /\ dbAccounts' # dbAccounts
        /\ BagCardinality(dbAccounts') <= BagCardinality(dbAccounts))
       => /\ \E i \in 1..Len(listView.rows) :
                \E r \in BagToSet(dbAccounts) :
                   /\ r.id = listView.rows[i].id
                   /\ dbAccounts' = dbAccounts (-) SetToBag({r})
          /\ OtherThanAccounts' = OtherThanAccounts]_vars

\* an account has been deleted and a transaction that refers to it is still
\* stored
C17_Witness ==
    \E t \in BagToSet(dbTransactions) :
       /\ t.account_id # NoId
       /\ \A a \in BagToSet(dbAccounts) : a.id # t.account_id

\* the record with the id of r that the table holds after the step is r
KeptAsItWas(r, table) == \A r2 \in BagToSet(table) : r2.id = r.id => r2 = r

\* C18: a record that is stored before and after a step is the same after
\* as before, in every table; but for the goal of the Update Progress form
\* when the form is submitted, which may differ in its current_amount, the
\* amount of the form, and in nothing else
C18_OnlyGoalProgressChangesRecords ==
    [][/\ \A r \in BagToSet(dbTransactions) : KeptAsItWas(r, dbTransactions')
       /\ \A r \in BagToSet(dbAccounts) : KeptAsItWas(r, dbAccounts')
       /\ \A r \in BagToSet(dbLoans) : KeptAsItWas(r, dbLoans')
       /\ \A r \in BagToSet(dbCreditScores) : KeptAsItWas(r, dbCreditScores')
       /\ \A r \in BagToSet(dbMessages) : KeptAsItWas(r, dbMessages')
       /\ \A r \in BagToSet(dbGoals) :
             \/ KeptAsItWas(r, dbGoals')
             \/ /\ goalsMounted /\ updateModal # NoUpdateModal
                /\ updateModal.goal.id = r.id
                /\ updateModal' = NoUpdateModal
                /\ KeptAsItWas([r EXCEPT !.current_amount = updateModal.amount],
                               dbGoals')]_vars

\* the progress of a goal has been updated while another record is stored
C18_Witness ==
    \E g \in BagToSet(dbGoals) :
       /\ g.current_amount \in UpdateAmounts
       /\ g.current_amount \notin {f.current_amount : f \in GoalForms}
       /\ BagCardinality(dbGoals (+) dbAccounts (+) dbLoans (+) dbTransactions) > 1

----------------------------------------------------------------------------
(* Properties of the Dashboard's totals *)

RECURSIVE SumOver(_, _)
\* the sum of a field over a set of records
SumOver(S, field) ==
    IF S = {} THEN 0
    ELSE LET r == CHOOSE x \in S : TRUE
         IN  r[field] + SumOver(S \ {r}, field)

\* the user's records that a table holds
StoredOf(bag) == {r \in BagToSet(bag) : r.user_id = user.id}

StoredBalance == SumOver(StoredOf(dbAccounts), "balance")

StoredDebt == SumOver(StoredOf(dbLoans), "current_balance")

C20_EmptyGivesIdentity ==
    /\ dashLoad = "done" =>
          /\ StoredOf(dbAccounts) = {} => dashData.totalBalance = 0
          /\ StoredOf(dbLoans) = {} => dashData.totalLoans = 0
          /\ StoredOf(dbTransactions) = {} =>
                /\ dashData.monthlyIncome = 0
                /\ dashData.monthlyExpenses = 0
                /\ dashData.expensesByCategory = <<>>
    /\ (listView # NoListView /\ ~listView.loading /\ listView.rows = <<>>) =>
          /\ listView.view = "accounts" => AccountsTotalBalance(listView.rows) = 0
          /\ listView.view = "loans" =>
                /\ TotalDebt(listView.rows) = 0
                /\ TotalMonthlyPayments(listView.rows) = 0

\* C20 witness: a load that found a loan and neither an account nor a
\* transaction
C20_Witness ==
    /\ dashLoad = "done"
    /\ StoredOf(dbAccounts) = {}
    /\ StoredOf(dbTransactions) = {}
    /\ dashData.totalLoans > 0
    /\ dashData.totalBalance = 0
    /\ dashData.monthlyExpenses = 0
    /\ dashData.expensesByCategory = <<>>

----------------------------------------------------------------------------
(* Properties of the order of the top categories *)

\* where the fetched list first has a current-month expense of category c
FirstEncountered(c) ==
    CHOOSE i \in CurrentExpenseIdx :
       /\ Fetched[i].category = c
       /\ \A j \in CurrentExpenseIdx : Fetched[j].category = c => i <= j

\* C21: after a load, categories of equal monthly total stand in the
\* top-categories list in the order in which the fetched list first has a
\* current-month expense of each, and a category left out of the list was
\* first encountered after every listed category of the same total.
C21_TiesInFirstEncounteredOrder ==
    dashLoad = "done" =>
        LET top == dashData.expensesByCategory
            listed == {top[i].category : i \in 1..Len(top)}
        IN  /\ \A i, j \in 1..Len(top) :
                  (i < j /\ top[i].total = top[j].total)
                  => FirstEncountered(top[i].category)
                        < FirstEncountered(top[j].category)
            /\ \A c \in CurrentExpenseCategories \ listed :
                  \A i \in 1..Len(top) :
                     top[i].total = CategoryTotal(c)
                     => FirstEncountered(top[i].category) < FirstEncountered(c)

\* C21 witness: two categories of equal total listed after a category of a
\* larger total that the fetched list has later than both
C21_Witness ==
    /\ dashLoad = "done"
    /\ Len(dashData.expensesByCategory) = 3
    /\ dashData.expensesByCategory[2].total = dashData.expensesByCategory[3].total
    /\ FirstEncountered(dashData.expensesByCategory[2].category)
          < FirstEncountered(dashData.expensesByCategory[3].category)
    /\ FirstEncountered(dashData.expensesByCategory[3].category)
          < FirstEncountered(dashData.expensesByCategory[1].category)

----------------------------------------------------------------------------
(* Properties of what the forms store *)

\* C22: every stored transaction has a positive amount, and the monthly
\* totals of a load are not below any amount that went into them.
C22_InsertedAmountsPositive ==
    /\ \A t \in BagToSet(dbTransactions) : t.amount > 0
    /\ dashLoad = "done" =>
          \A i \in CurrentExpenseIdx : dashData.monthlyExpenses >= Fetched[i].amount

\* C23: every stored credit score is an integer from 300 to 850, and the
\* marker of the current score stands between 0 and 100 percent.
C23_ScoresInRange ==
    /\ \A r \in BagToSet(dbCreditScores) : r.score \in 300..850
    /\ (listView.view = "credit_scores" /\ listView.rows # <<>>)
          => InPercentRange(MarkerPosition(listView.rows[1].score))

\* the number a text writes, for a text that is a number
EnteredValue(text) ==
    LET v == ParseNumberInput(text)
    IN  IF v.e >= 0 THEN [k |-> "num", n |-> v.m * Pow10(v.e), d |-> 1]
        ELSE Frac(v.m, Pow10(0 - v.e))

----------------------------------------------------------------------------
(* Properties of the lists the views hold *)

\* C25: in a view none of whose load calls is on its way, the list is the
\* user's records of the store, in the order of the view's query.
C25_ListEqualsStore ==
    (goalsMounted /\ ~goalsLoading /\ goalsInFlight = EmptyBag)
    => goals = SelectGoals(dbGoals, user.id)

----------------------------------------------------------------------------
(* Properties of a send of the Chat *)

\* the rows a step adds to the messages
NewMessages == BagToSet(dbMessages') \ BagToSet(dbMessages)

\* C26: the store never holds more replies than user messages; a reply is
\* inserted only by a send whose user message was inserted, and the user
\* message is inserted before it; nothing is sent or inserted on an input
\* that is empty after trimming or without a user; and the Chat is loading
\* exactly while a send of it is under way, whether the send ends with its
\* reload or with a failed insert.
C26_SendOrderAndLoading ==
    /\ [](Cardinality(AiRows) <= Cardinality(UserRows))
    /\ [](chatMounted => (chatLoading <=> chatSend # NoSend))
    /\ [][/\ (chatSend'.pc = "insertAi" /\ chatSend.pc # "insertAi")
             => /\ chatSend.pc = "insertUser"
                /\ \E u \in NewMessages :
                      u.sender = "user" /\ u.message = chatSend.userMessage
          /\ \A a \in NewMessages :
                a.sender = "ai"
                => /\ chatSend.pc = "insertAi"
                   /\ \E u \in UserRows :
                         u.id < a.id /\ u.message = chatSend.userMessage
          /\ ((Trim(input) = <<>> \/ user = NoUser) /\ chatSend = NoSend)
             => (dbMessages' = dbMessages /\ chatSend' = NoSend)
          /\ (chatSend # NoSend /\ chatSend' = NoSend /\ chatMounted')
             => ~chatLoading']_vars

\* C26 witness: a send has ended on a failed insert of the reply, loading is
\* over, and a blank has been typed since
C26_Witness ==
    /\ chatMounted /\ ~chatLoading /\ chatSend = NoSend
    /\ Cardinality(AiRows) < Cardinality(UserRows)
    /\ input # <<>> /\ Trim(input) = <<>>

----------------------------------------------------------------------------
(* Properties of signing out *)

\* a data view is mounted
DataViewRendered ==
    \/ dashLoad # "unmounted"
    \/ goalsMounted
    \/ transactionsMounted
    \/ chatMounted
    \/ listView # NoListView

\* C30: once Sign Out has been pressed, the user is eventually null; while
\* the user is null the application shows the Auth screen or the loading
\* line and no data view; and a data view is rendered only while the auth
\* state is not loading and holds a user.
C30_SignOutLeavesNoUser ==
    /\ signOutPressed ~> (user = NoUser)
    /\ [](user = NoUser => ~DataViewRendered)
    /\ [](DataViewRendered => (~authLoading /\ user # NoUser))

----------------------------------------------------------------------------
(* Properties of the loading state of the views *)

DashboardRendered == dashLoad # "unmounted"

\* the view of a step stays mounted and was not loading
StaysLoaded(mounted, loading) == mounted /\ ~loading /\ mounted'

----------------------------------------------------------------------------
(* Properties of the add forms and of the delete prompts *)

\* the rows a step adds to a table, and the rows it takes from it
Added(bag) == BagToSet(bag') \ BagToSet(bag)

Removed(bag) == BagToSet(bag) \ BagToSet(bag')

\* the rows of the table of a list view
ListBag(v) ==
    CASE v = "accounts" -> dbAccounts
      [] v = "loans" -> dbLoans
      [] v = "credit_scores" -> dbCreditScores

\* C28: a step that inserts a row from the form of the Transactions, Goals,
\* Accounts, Loans or CreditScore view is taken with a user, closes the add
\* modal, resets the form to its initial values and adds exactly one load
\* call to those under way; a step that removes a row is a handleDelete
\* whose prompt was confirmed, and a handleDelete whose prompt was declined
\* changes nothing; and no view is mounted while the user is null.
C28_SubmitResetsAndDeleteConfirms ==
    /\ [](user = NoUser => NoViewMounted)
    /\ [][/\ (Added(dbGoals) # {})
             => /\ user # NoUser
                /\ goalsShowModal /\ ~goalsShowModal'
                /\ goalsFormData' = BlankGoalForm
                /\ goalsInFlight' = goalsInFlight (+) SetToBag({Sent})
          /\ (Added(dbTransactions) # {})
             => /\ user # NoUser
                /\ transactionsShowModal /\ ~transactionsShowModal'
                /\ transactionsFormData' = BlankTxForm
                /\ transactionsInFlight' = transactionsInFlight (+) SetToBag({LoadDataSent})
          /\ \A v \in ListViews :
                (BagToSet(ListBag(v)') \ BagToSet(ListBag(v)) # {})
                => /\ user # NoUser
                   /\ listView.view = v
                   /\ listView.showModal /\ ~listView'.showModal
                   /\ listView'.formData = BlankListForm(v)
                   /\ listView'.inFlight = listView.inFlight (+) SetToBag({Sent})
          /\ (Removed(dbGoals) # {})
             => \E i \in 1..Len(goals) : GoalsConfirmDelete(goals[i].id, TRUE)
          /\ (Removed(dbTransactions) # {})
             => \E i \in 1..Len(transactions) :
                   TransactionsConfirmDelete(transactions[i].id, TRUE)
          /\ (Removed(dbAccounts) # {} \/ Removed(dbLoans) # {})
             => \E i \in 1..Len(listView.rows) :
                   ListViewConfirmDelete(listView.rows[i].id, TRUE)
          /\ Removed(dbCreditScores) = {}
          /\ \A i \in 1..Len(goals) :
                GoalsConfirmDelete(goals[i].id, FALSE) => UNCHANGED vars
          /\ \A i \in 1..Len(transactions) :
                TransactionsConfirmDelete(transactions[i].id, FALSE) => UNCHANGED vars
          /\ listView # NoListView
             => \A i \in 1..Len(listView.rows) :
                   ListViewConfirmDelete(listView.rows[i].id, FALSE) => UNCHANGED vars]_vars

\* C28 witness: an account has been added: the modal is closed, the form is
\* blank again and the one reload of the insert is on its way
C28_Witness ==
    /\ listView # NoListView
    /\ listView.view = "accounts"
    /\ dbAccounts # EmptyBag
    /\ listView.rows = <<>>
    /\ ~listView.showModal
    /\ listView.formData = BlankListForm("accounts")
    /\ listView.inFlight = SetToBag({Sent})

----------------------------------------------------------------------------
(* Properties of the rating and the trend of the CreditScore view *)

\* the lines of the Score Ranges card that hold a score
RangesOf(score) ==
    {i \in 1..Len(ScoreRanges) : ScoreRanges[i].min <= score /\ score <= ScoreRanges[i].max}

\* C29: for every score from 300 to 850, exactly one line of the Score
\* Ranges card holds the score and getScoreRating returns the label of that
\* line; the current score of a render is the score of the first entry of
\* the list, which no entry follows with a later score_date; the trend is
\* null for a list of fewer than two entries, and otherwise its diff is the
\* first entry's score minus the second's and isPositive is diff >= 0.
C29_RatingMatchesRangesAndTrend ==
    /\ calc.fn = "CreditScore.getScoreRating"
       => /\ Cardinality(RangesOf(calc.score)) = 1
          /\ \A i \in RangesOf(calc.score) : calc.label = ScoreRanges[i].label
    /\ calc.fn = "CreditScore"
       => LET scores == calc.scores
              trend == calc.derived.trend
          IN  /\ Len(scores) > 0
                 => /\ calc.derived.currentScore = scores[1].score
                    /\ \A i \in 1..Len(scores) :
                          ~DateAfter(scores[i].score_date, scores[1].score_date)
              /\ Len(scores) < 2 => trend = Null
              /\ Len(scores) >= 2
                 => /\ trend # Null
                    /\ trend.diff = scores[1].score - scores[2].score
                    /\ trend.isPositive <=> (trend.diff >= 0)

\* C29 witness: a render of two entries, the later dated one entered first
\* and holding the lower score
C29_Witness ==
    /\ calc.fn = "CreditScore"
    /\ Len(calc.scores) = 2
    /\ calc.scores[1].id < calc.scores[2].id
    /\ calc.derived.currentScore = 650
    /\ calc.derived.trend = [diff |-> -70, isPositive |-> FALSE]
    /\ calc.derived.rating = "Fair"

====
